---- MODULE Spec2Model ----
(***************************************************************************)
(* Document similarity checker: the tokenizer and the three lexical        *)
(* scoring functions of backend/utils/similarity.js, and the dispatcher of *)
(* backend/controllers/compareController.js, and the semantic services of  *)
(* backend/utils as the dispatcher calls them.                             *)
(*                                                                         *)
(* Texts and algorithm identifiers are sequences of one-character strings. *)
(* Scores are exact real numbers (IEEE rounding of the doubles is not      *)
(* modelled); NaN is a value of its own.                                   *)
(***************************************************************************)
EXTENDS Integers, Sequences, FiniteSets, TLC

VARIABLES
  doc1, doc2,     \* the two documents of the call or request
  fn,             \* LexSpec: the function applied ("none" before the call)
  nArg,           \* LexSpec: the n passed to ngramSimilarity
  fwd, rev,       \* LexSpec: f(doc1, doc2) and f(doc2, doc1)
  toks, retoks,   \* LexSpec: tokenize(doc1) and tokenize(tokenize(doc1).join(' '))
  algorithm,      \* Spec: req.body.algorithm
  pc,             \* Spec: position of the request handler
  handledBy,      \* Spec: the functions that handled the request, in call order
  branch,         \* Spec: the switch case taken
  providerCalls,  \* Spec: calls made to an embedding / chat provider
  res,            \* Spec: the response sent
  split,          \* ChunkSpec: the call of splitText in progress (its arguments and locals)
  tasks,          \* ServiceSpec: the strategy calls of the awaited service method
  answers,        \* ServiceSpec: what the providers answer to this comparison
  wire,           \* ServiceSpec: the provider calls issued, in order
  extractor,      \* LoadSpec: this.extractor of the Local service
  loads,          \* LoadSpec: calls of pipeline() made so far
  callers,        \* LoadSpec: position of each concurrent getEmbeddings call
  embed,          \* EmbedSpec: the Local comparison in progress (its locals)
  ui              \* UISpec: the state of the frontend's App and FileUpload

vars == <<doc1, doc2, fn, nArg, fwd, rev, toks, retoks,
          algorithm, pc, handledBy, branch, providerCalls, res, split,
          tasks, answers, wire, extractor, loads, callers, embed, ui>>

lexVars == <<fn, nArg, fwd, rev, toks, retoks>>
reqVars == <<algorithm, pc, handledBy, branch, providerCalls, res>>
svcVars == <<split, tasks, answers, wire, extractor, loads, callers, embed, ui>>
chunkVars == <<split>>
taskVars == <<tasks, answers, wire>>
loadVars == <<extractor, loads, callers>>
embedVars == <<embed>>
uiVars == <<ui>>

\* no service call in progress
NotSplitting == [pc |-> "idle", chunkSize |-> 0, chunkOverlap |-> 0,
                 words |-> <<>>, i |-> 0, chunks |-> <<>>]
\* the strategies of the services: one call each for the single cases, three
\* for the Combined ones
Strategies == {"hf", "bedrock", "embedding", "rag", "llm",
               "local-embedding", "local-rag", "local-llm"}
Unstarted == [st |-> "unstarted", issued |-> 0, failedAt |-> 0]
NoAnswers == [c1 |-> 0, c2 |-> 0]
NotEmbedding == [pc |-> "idle"]
Null == [kind |-> "null"]
\* the useState initial values of App and FileUpload; no handler is running
Mounted == [similarity |-> Null, error |-> "", loading |-> FALSE,
            file1 |-> Null, file2 |-> Null,
            pc |-> "idle", handler |-> "none", status |-> "none"]
SvcIdle ==
  /\ split = NotSplitting
  /\ tasks = [t \in Strategies |-> Unstarted]
  /\ answers = NoAnswers
  /\ wire = <<>>
  /\ extractor = "null"
  /\ loads = 0
  /\ callers = <<>>
  /\ embed = NotEmbedding
  /\ ui = Mounted

(***************************************************************************)
(* Bounds of the model.                                                    *)
(***************************************************************************)
MaxDocLen == 5
MaxShortLen == 1
MaxReqLen == 1

Alphabet == {"a", "B", " ", "."}

RECURSIVE SeqsUpTo(_)
SeqsUpTo(k) ==
  IF k = 0 THEN {<<>>}
  ELSE LET S == SeqsUpTo(k - 1)
       IN  S \cup {Append(s, c) : s \in {t \in S : Len(t) = k - 1}, c \in Alphabet}

(***************************************************************************)
(* Characters.                                                             *)
(***************************************************************************)
UpperCase == <<"A","B","C","D","E","F","G","H","I","J","K","L","M",
               "N","O","P","Q","R","S","T","U","V","W","X","Y","Z">>
LowerCase == <<"a","b","c","d","e","f","g","h","i","j","k","l","m",
               "n","o","p","q","r","s","t","u","v","w","x","y","z">>
Digits == {"0","1","2","3","4","5","6","7","8","9"}
Whitespace == {" ", "\t", "\n", "\r"}

Range(s) == {s[i] : i \in DOMAIN s}

\* String.prototype.toLowerCase, one character
UpperLetters == Range(UpperCase)
LowerChar(c) ==
  IF c \in UpperLetters
  THEN LowerCase[CHOOSE i \in DOMAIN UpperCase : UpperCase[i] = c]
  ELSE c

toLowerCase(text) == [i \in DOMAIN text |-> LowerChar(text[i])]

\* the class [a-z0-9\s] of the replace() in tokenize
WordChars == Range(LowerCase) \cup Digits
IsSpace(c) == c \in Whitespace
IsKept(c) == c \in WordChars \/ IsSpace(c)

\* .replace(/[^a-z0-9\s]/g, '')
StripOthers(text) == SelectSeq(text, IsKept)

RECURSIVE DropSpaces(_)
DropSpaces(s) ==
  IF s # <<>> /\ IsSpace(Head(s)) THEN DropSpaces(Tail(s)) ELSE s

\* .split(/\s+/): the pieces between maximal runs of whitespace, empty pieces kept
RECURSIVE SplitFrom(_, _, _)
SplitFrom(s, cur, acc) ==
  IF s = <<>> THEN Append(acc, cur)
  ELSE IF IsSpace(Head(s))
       THEN SplitFrom(DropSpaces(s), <<>>, Append(acc, cur))
       ELSE SplitFrom(Tail(s), Append(cur, Head(s)), acc)

SplitSpaces(text) == SplitFrom(text, <<>>, <<>>)

NonEmptyPiece(p) == p # <<>>

\* .filter(Boolean)
tokenizeDropNothing(text) == SplitSpaces(StripOthers(toLowerCase(text)))
tokenize(text) == SelectSeq(SplitSpaces(StripOthers(toLowerCase(text))), NonEmptyPiece)

\* Array.prototype.join(' ')
RECURSIVE JoinSpace(_)
JoinSpace(ts) ==
  IF ts = <<>> THEN <<>>
  ELSE IF Len(ts) = 1 THEN ts[1]
  ELSE ts[1] \o <<" ">> \o JoinSpace(Tail(ts))

(***************************************************************************)
(* Numbers.  A score is NaN, a rational n/d in lowest terms (what a        *)
(* division of two small counts yields), or the cosine quotient            *)
(* dot / (sqrt(m1sq) * sqrt(m2sq)) kept in closed form.  The sums of a     *)
(* cosine are (a + b*K)/den, where K = (ln(2/3) + 1)^2 is the square of    *)
(* the idf of a word found in both documents (the idf of a word found in   *)
(* one document is ln(1) + 1 = 1).  K is positive and transcendental, so   *)
(* two polynomials in K agree as reals exactly when their coefficients do. *)
(***************************************************************************)
RECURSIVE GCD(_, _)
GCD(a, b) == IF b = 0 THEN a ELSE GCD(b, a % b)

MaxOf(a, b) == IF a >= b THEN a ELSE b

NaN == [k |-> "nan"]
Num(n, d) == LET g == GCD(n, d) IN [k |-> "num", n |-> n \div g, d |-> d \div g]
Zero == Num(0, 1)
One == Num(1, 1)

\* a / b for two counts, as JavaScript divides: 0/0 is NaN
Div(a, b) == IF b = 0 THEN NaN ELSE Num(a, b)

IsNaN(x) == x.k = "nan"

\* n / sqrt(a * b): a fraction when the root is a whole number, and otherwise
\* kept as the numerator over the root of d
Root(n, a, b) ==
  IF \E r \in 0..MaxOf(a, b) : r * r = a * b
  THEN Num(n, CHOOSE r \in 0..MaxOf(a, b) : r * r = a * b)
  ELSE [k |-> "surd", n |-> n, d |-> a * b]
\* x > p / q and x < p / q, for a score x and whole numbers p >= 0, q > 0
Exceeds(x, p, q) ==
  IF x.k = "surd" THEN x.n > 0 /\ x.n * x.n * q * q > p * p * x.d
  ELSE x.n * q > p * x.d
Below(x, p, q) ==
  IF x.k = "surd" THEN x.n < 0 \/ x.n * x.n * q * q < p * p * x.d
  ELSE x.n * q < p * x.d

Coef(p, i) == IF i \in DOMAIN p THEN p[i] ELSE 0

RECURSIVE SumTo(_, _)
SumTo(f, n) == IF n = 0 THEN 0 ELSE f[n] + SumTo(f, n - 1)

PolyMul(p, q) ==
  [k \in 1..(Len(p) + Len(q) - 1) |->
     SumTo([i \in 1..Len(p) |-> p[i] * Coef(q, k + 1 - i)], Len(p))]
PolyScale(c, p) == [i \in DOMAIN p |-> c * p[i]]
PolyEq(p, q) == \A i \in 1..MaxOf(Len(p), Len(q)) : Coef(p, i) = Coef(q, i)
PolyIsZero(p) == \A i \in DOMAIN p : p[i] = 0
LinPoly(x) == <<x.a, x.b>>

\* s^2 = SqNum(s) / SqDen(s) for a score s that is not NaN (s >= 0)
SqNum(s) ==
  IF s.k = "num" THEN <<s.n * s.n>>
  ELSE PolyScale(s.m1sq.den * s.m2sq.den, PolyMul(LinPoly(s.dot), LinPoly(s.dot)))
SqDen(s) ==
  IF s.k = "num" THEN <<s.d * s.d>>
  ELSE PolyScale(s.dot.den * s.dot.den, PolyMul(LinPoly(s.m1sq), LinPoly(s.m2sq)))

IsZeroScore(s) == ~IsNaN(s) /\ PolyIsZero(SqNum(s))
IsOneScore(s) == ~IsNaN(s) /\ PolyEq(SqNum(s), SqDen(s))
\* the same value both times (NaN both times counts as the same outcome)
SameScore(s, t) ==
  \/ IsNaN(s) /\ IsNaN(t)
  \/ /\ ~IsNaN(s) /\ ~IsNaN(t)
     /\ PolyEq(PolyMul(SqNum(s), SqDen(t)), PolyMul(SqNum(t), SqDen(s)))
\* 0 <= s <= 1: as K > 0, coefficientwise SqNum <= SqDen suffices
InUnitInterval(s) ==
  /\ ~IsNaN(s)
  /\ \A i \in 1..MaxOf(Len(SqNum(s)), Len(SqDen(s))) :
        0 <= Coef(SqNum(s), i) /\ Coef(SqNum(s), i) <= Coef(SqDen(s), i)

(***************************************************************************)
(* jaccardSimilarity                                                       *)
(***************************************************************************)
jaccardUnguarded(text1, text2) ==
  Div(Cardinality(Range(tokenize(text1)) \cap Range(tokenize(text2))),
      Cardinality(Range(tokenize(text1)) \cup Range(tokenize(text2))))

jaccardOverAll(text1, text2) ==
  Div(Cardinality(Range(tokenize(text1)) \cap Range(tokenize(text2))),
      Len(tokenize(text1)) + Len(tokenize(text2)))

jaccardOverFirst(text1, text2) ==
  IF Cardinality(Range(tokenize(text1))) = 0 THEN Zero
  ELSE Div(Cardinality(Range(tokenize(text1)) \cap Range(tokenize(text2))),
           Cardinality(Range(tokenize(text1))))

jaccardSimilarity(text1, text2) ==
  LET set1 == Range(tokenize(text1))
      set2 == Range(tokenize(text2))
      intersection == {x \in set1 : x \in set2}
      union == set1 \cup set2
  IN  IF Cardinality(union) = 0 THEN Zero
      ELSE Div(Cardinality(intersection), Cardinality(union))

(***************************************************************************)
(* cosineSimilarity (TF-IDF)                                               *)
(***************************************************************************)
Freq(tokens, word) == Cardinality({i \in DOMAIN tokens : tokens[i] = word})

\* tf * idf for one word: (count / tokens.length) * idf(docFreq); 0/0 is NaN
TfIdfEntry(count, len, docFreq) ==
  IF len = 0 THEN NaN
  ELSE [k |-> "w", c |-> count, len |-> len, df |-> docFreq]

\* the vector of one document over the vocabulary allWords
TfIdfVector(tokens, other, allWords) ==
  [word \in allWords |->
     TfIdfEntry(Freq(tokens, word), Len(tokens),
                (IF Freq(tokens, word) > 0 THEN 1 ELSE 0)
                  + (IF Freq(other, word) > 0 THEN 1 ELSE 0))]

RECURSIVE SumOver(_, _)
SumOver(S, f) ==
  IF S = {} THEN 0
  ELSE LET x == CHOOSE y \in S : TRUE IN f[x] + SumOver(S \ {x}, f)

\* sum of v[w] * u[w] over the vocabulary, as (a + b*K)/den
SumProducts(v, u, lenV, lenU) ==
  IF \E w \in DOMAIN v : IsNaN(v[w]) \/ IsNaN(u[w]) THEN NaN
  ELSE [k |-> "lin",
        a |-> SumOver({w \in DOMAIN v : v[w].df = 1}, [w \in DOMAIN v |-> v[w].c * u[w].c]),
        b |-> SumOver({w \in DOMAIN v : v[w].df = 2}, [w \in DOMAIN v |-> v[w].c * u[w].c]),
        den |-> MaxOf(lenV, 1) * MaxOf(lenU, 1)]

\* Math.sqrt(x) === 0
SqrtIsZero(x) == ~IsNaN(x) /\ x.a = 0 /\ x.b = 0

Quotient(dot, m1sq, m2sq) ==
  IF IsNaN(dot) \/ IsNaN(m1sq) \/ IsNaN(m2sq) THEN NaN
  ELSE [k |-> "cos", dot |-> dot, m1sq |-> m1sq, m2sq |-> m2sq]

CosineOver(tokens1, tokens2, allWords) ==
  LET vector1 == TfIdfVector(tokens1, tokens2, allWords)
      vector2 == TfIdfVector(tokens2, tokens1, allWords)
      dotProduct == SumProducts(vector1, vector2, Len(tokens1), Len(tokens2))
      magnitude1 == SumProducts(vector1, vector1, Len(tokens1), Len(tokens1))
      magnitude2 == SumProducts(vector2, vector2, Len(tokens2), Len(tokens2))
  IN  IF SqrtIsZero(magnitude1) \/ SqrtIsZero(magnitude2) THEN Zero
      ELSE Quotient(dotProduct, magnitude1, magnitude2)

\* the two TF-IDF vectors cosineSimilarity builds
cosineVectors(text1, text2) ==
  LET tokens1 == tokenize(text1)
      tokens2 == tokenize(text2)
      allWords == Range(tokens1) \cup Range(tokens2)
  IN  <<TfIdfVector(tokens1, tokens2, allWords), TfIdfVector(tokens2, tokens1, allWords)>>

cosineVocabOfFirst(text1, text2) ==
  CosineOver(tokenize(text1), tokenize(text2), Range(tokenize(text1)))

cosineSimilarity(text1, text2) ==
  LET tokens1 == tokenize(text1)
      tokens2 == tokenize(text2)
      allWords == Range(tokens1) \cup Range(tokens2)
  IN  CosineOver(tokens1, tokens2, allWords)

(***************************************************************************)
(* ngramSimilarity                                                         *)
(***************************************************************************)
createNGrams(text, n) ==
  LET tokens == tokenize(text)
  IN  {JoinSpace(SubSeq(tokens, i, i + n - 1)) : i \in 1..(Len(tokens) - n + 1)}

ngramUnguarded(text1, text2, n) ==
  Div(Cardinality(createNGrams(text1, n) \cap createNGrams(text2, n)),
      Cardinality(createNGrams(text1, n) \cup createNGrams(text2, n)))

ngramSimilarity(text1, text2, n) ==
  LET ngrams1 == createNGrams(text1, n)
      ngrams2 == createNGrams(text2, n)
      intersection == {x \in ngrams1 : x \in ngrams2}
      union == ngrams1 \cup ngrams2
  IN  IF Cardinality(union) = 0 THEN Zero
      ELSE Div(Cardinality(intersection), Cardinality(union))

DefaultN == 3

(***************************************************************************)
(* LexSpec: the exported functions of similarity.js applied to a pair of   *)
(* texts, in both argument orders.                                         *)
(***************************************************************************)
Docs == SeqsUpTo(MaxDocLen)
ShortDocs == SeqsUpTo(MaxShortLen)
Unset == [k |-> "unset"]

ReqIdle ==
  /\ algorithm = <<>>
  /\ pc = "off"
  /\ handledBy = <<>>
  /\ branch = "none"
  /\ providerCalls = 0
  /\ res = [status |-> 0]

LexInit ==
  /\ doc1 \in Docs
  /\ doc2 \in ShortDocs \cup {doc1}
  /\ fn = "none"
  /\ nArg = 0
  /\ fwd = Unset
  /\ rev = Unset
  /\ toks = <<>>
  /\ retoks = <<>>
  /\ ReqIdle
  /\ SvcIdle

CallTokenize ==
  /\ fn = "none"
  /\ fn' = "tokenize"
  /\ toks' = tokenize(doc1)
  /\ retoks' = tokenize(JoinSpace(tokenize(doc1)))
  /\ UNCHANGED <<doc1, doc2, nArg, fwd, rev>>
  /\ UNCHANGED reqVars
  /\ UNCHANGED svcVars

CallJaccard ==
  /\ fn = "none"
  /\ fn' = "jaccard"
  /\ fwd' = jaccardSimilarity(doc1, doc2)
  /\ rev' = jaccardSimilarity(doc2, doc1)
  /\ UNCHANGED <<doc1, doc2, nArg, toks, retoks>>
  /\ UNCHANGED reqVars
  /\ UNCHANGED svcVars

CallCosine ==
  /\ fn = "none"
  /\ fn' = "cosine"
  /\ fwd' = cosineSimilarity(doc1, doc2)
  /\ rev' = cosineSimilarity(doc2, doc1)
  /\ UNCHANGED <<doc1, doc2, nArg, toks, retoks>>
  /\ UNCHANGED reqVars
  /\ UNCHANGED svcVars

CallNgram ==
  /\ fn = "none"
  /\ \E n \in 1..DefaultN :
       /\ nArg' = n
       /\ fwd' = ngramSimilarity(doc1, doc2, n)
       /\ rev' = ngramSimilarity(doc2, doc1, n)
  /\ fn' = "ngram"
  /\ UNCHANGED <<doc1, doc2, toks, retoks>>
  /\ UNCHANGED reqVars
  /\ UNCHANGED svcVars

LexNext == CallTokenize \/ CallJaccard \/ CallCosine \/ CallNgram

LexSpec == LexInit /\ [][LexNext]_vars

\* the documents of the call, tokenized
Tokens1 == tokenize(doc1)
Tokens2 == tokenize(doc2)
Scored == fn \in {"jaccard", "cosine", "ngram"}
OneSideEmpty ==
  \/ Tokens1 = <<>> /\ Tokens2 # <<>>
  \/ Tokens1 # <<>> /\ Tokens2 = <<>>

(***************************************************************************)
(* Algorithm identifiers (req.body.algorithm), as character sequences.     *)
(***************************************************************************)
Id_jaccard == <<"j","a","c","c","a","r","d">>
Id_cosine == <<"c","o","s","i","n","e">>
Id_ngram == <<"n","g","r","a","m">>
Id_semantic == <<"s","e","m","a","n","t","i","c">>
Id_semantic_embedding == <<"s","e","m","a","n","t","i","c","-","e","m","b","e","d","d","i","n","g">>
Id_semantic_rag == <<"s","e","m","a","n","t","i","c","-","r","a","g">>
Id_semantic_llm == <<"s","e","m","a","n","t","i","c","-","l","l","m">>
Id_semantic_hf == <<"s","e","m","a","n","t","i","c","-","h","f">>
Id_semantic_bedrock == <<"s","e","m","a","n","t","i","c","-","b","e","d","r","o","c","k">>
Id_semantic_local == <<"s","e","m","a","n","t","i","c","-","l","o","c","a","l">>
Id_semantic_local_embedding == <<"s","e","m","a","n","t","i","c","-","l","o","c","a","l","-","e","m","b","e","d","d","i","n","g">>
Id_semantic_local_rag == <<"s","e","m","a","n","t","i","c","-","l","o","c","a","l","-","r","a","g">>
Id_semantic_local_llm == <<"s","e","m","a","n","t","i","c","-","l","o","c","a","l","-","l","l","m">>
Id_semantic_local_combined == <<"s","e","m","a","n","t","i","c","-","l","o","c","a","l","-","c","o","m","b","i","n","e","d">>
Id_COSINE == <<"C","O","S","I","N","E">>
Id_Ngram == <<"N","g","r","a","m">>
Id_tfidf == <<"t","f","i","d","f">>
Id_Semantic_Local == <<"S","e","m","a","n","t","i","c","-","L","o","c","a","l">>
Id_semantic_HF == <<"s","e","m","a","n","t","i","c","-","H","F">>
Id_semantic_foo == <<"s","e","m","a","n","t","i","c","-","f","o","o">>
Id_empty == <<>>

\* req.body.algorithm absent, and present but not a string (a JSON number)
Undefined == <<"undefined">>
NonString == <<"non-string">>

\* the ids and names listed by getAlgorithms
Catalog ==
  << [id |-> Id_jaccard, name |-> "Jaccard Similarity"],
     [id |-> Id_cosine, name |-> "Cosine Similarity (TF-IDF)"],
     [id |-> Id_ngram, name |-> "N-gram Similarity"],
     [id |-> Id_semantic, name |-> "Semantic Similarity (Combined)"],
     [id |-> Id_semantic_embedding, name |-> "Semantic Embedding Similarity"],
     [id |-> Id_semantic_rag, name |-> "Semantic RAG Similarity"],
     [id |-> Id_semantic_llm, name |-> "Semantic LLM Similarity"],
     [id |-> Id_semantic_hf, name |-> "Semantic Similarity (Hugging Face)"],
     [id |-> Id_semantic_bedrock, name |-> "Semantic Similarity (Amazon Bedrock)"],
     [id |-> Id_semantic_local, name |-> "Semantic Similarity (Local)"],
     [id |-> Id_semantic_local_embedding, name |-> "Semantic Embedding Similarity (Local)"],
     [id |-> Id_semantic_local_rag, name |-> "Semantic RAG Similarity (Local)"],
     [id |-> Id_semantic_local_llm, name |-> "Semantic LLM Similarity (Local)"],
     [id |-> Id_semantic_local_combined, name |-> "Semantic Combined Similarity (Local)"] >>
CatalogIds == {Catalog[i].id : i \in DOMAIN Catalog}

\* the identifiers a request of the model may carry
AlgorithmInputs ==
  CatalogIds \cup {Id_COSINE, Id_Ngram, Id_tfidf, Id_Semantic_Local, Id_semantic_HF,
                   Id_semantic_foo, Id_empty, Undefined, NonString}

\* String.prototype.startsWith
startsWith(s, prefix) ==
  Len(s) >= Len(prefix) /\ SubSeq(s, 1, Len(prefix)) = prefix

\* const { ..., algorithm = 'jaccard' } = req.body
DefaultedAlgorithm(a) == IF a = Undefined THEN Id_jaccard ELSE a

(***************************************************************************)
(* compare: the lexical engine                                             *)
(***************************************************************************)
LexicalCaseDefaultCosine(lowered) ==
  IF lowered = Id_jaccard THEN "jaccard"
  ELSE IF lowered = Id_ngram THEN "ngram"
  ELSE "cosine"

\* the case of compare's switch for algorithm.toLowerCase()
LexicalCase(lowered) ==
  IF lowered = Id_cosine THEN "cosine"
  ELSE IF lowered = Id_ngram THEN "ngram"
  ELSE "jaccard"

compareCountsOfFirst(d1, d2, alg) ==
  LET case == LexicalCase(toLowerCase(alg))
  IN  [score |-> IF case = "cosine" THEN cosineSimilarity(d1, d2)
                 ELSE IF case = "ngram" THEN ngramSimilarity(d1, d2, DefaultN)
                 ELSE jaccardSimilarity(d1, d2),
       algorithmName |-> IF case = "cosine" THEN "Cosine Similarity (TF-IDF)"
                         ELSE IF case = "ngram" THEN "N-gram Similarity"
                         ELSE "Jaccard Similarity",
       details |-> [doc1Words |-> Len(tokenize(d1)), doc2Words |-> Len(tokenize(d1))]]

compare(d1, d2, alg) ==
  LET case == LexicalCase(toLowerCase(alg))
  IN  [score |-> IF case = "cosine" THEN cosineSimilarity(d1, d2)
                 ELSE IF case = "ngram" THEN ngramSimilarity(d1, d2, DefaultN)
                 ELSE jaccardSimilarity(d1, d2),
       algorithmName |-> IF case = "cosine" THEN "Cosine Similarity (TF-IDF)"
                         ELSE IF case = "ngram" THEN "N-gram Similarity"
                         ELSE "Jaccard Similarity",
       details |-> [doc1Words |-> Len(tokenize(d1)), doc2Words |-> Len(tokenize(d2))]]

\* the scoring function compare calls in each case
LexicalFunction(case) ==
  IF case = "cosine" THEN "cosineSimilarity"
  ELSE IF case = "ngram" THEN "ngramSimilarity"
  ELSE "jaccardSimilarity"
LexicalFunctions == {"jaccardSimilarity", "cosineSimilarity", "ngramSimilarity"}

(***************************************************************************)
(* The semantic services, as far as the dispatcher sees them: what each    *)
(* returns for the numbers its provider supplies.                          *)
(***************************************************************************)
MaxChunks == 1
ChunkSize == 1000
ChunkOverlap == 200
EmbeddingDim == 384
\* the weights of the Combined strategies, in tenths
WeightEmbedding == 4
WeightRag == 3
WeightLlm == 3

Half == Num(1, 2)
\* the similarities a provider's vectors or reply may amount to
SemScores == {Zero, Half, One}
NotANumber == [k |-> "undefined"]
IsNumber(x) == x.k \in {"num", "cos", "nan"}

\* the reply of the chat model: the JSON asked for, JSON without a numeric
\* similarity_score, or text JSON.parse rejects
LlmReplies == {"expected", "no_score", "unparseable"}

\* LocalSemanticSimilarityService.splitText, for chunkOverlap < chunkSize
RECURSIVE SplitTextFrom(_, _, _, _, _)
SplitTextFrom(words, i, chunkSize, chunkOverlap, chunks) ==
  IF i > Len(words) THEN chunks
  ELSE LET last == IF i + chunkSize - 1 > Len(words) THEN Len(words) ELSE i + chunkSize - 1
           window == SubSeq(words, i, last)
           chunk == JoinSpace(window)
       IN  SplitTextFrom(words, i + (chunkSize - chunkOverlap), chunkSize, chunkOverlap,
                         IF \E j \in DOMAIN chunk : ~IsSpace(chunk[j])
                         THEN Append(chunks, chunk) ELSE chunks)

splitText(text, chunkSize, chunkOverlap) ==
  SplitTextFrom(SplitSpaces(text), 1, chunkSize, chunkOverlap, <<>>)

LocalChunks(text) == Len(splitText(text, ChunkSize, ChunkOverlap))
LocalModel == "Xenova/all-MiniLM-L6-v2"

WeightedSumPlainMean(e, r, l) ==
  IF \E x \in {e, r, l} : x.k # "num" THEN NaN
  ELSE Num(e.n * r.d * l.d + r.n * e.d * l.d + l.n * e.d * r.d, 3 * e.d * r.d * l.d)

\* a * 0.4 + b * 0.3 + c * 0.3; NaN when a sub-score is undefined or NaN
WeightedSum(e, r, l) ==
  IF \E x \in {e, r, l} : x.k # "num" THEN NaN
  ELSE Num(WeightEmbedding * e.n * r.d * l.d + WeightRag * r.n * e.d * l.d
             + WeightLlm * l.n * e.d * r.d,
           10 * e.d * r.d * l.d)
Weights == [embedding |-> Num(WeightEmbedding, 10), rag |-> Num(WeightRag, 10),
            llm |-> Num(WeightLlm, 10)]

\* the mean of the pairwise similarities, 0 when there is no pair
MeanOrZero(count, mean) == IF count > 0 THEN mean ELSE Zero

\* SemanticSimilarityService (OpenAI)
OpenAIEmbeddingResult(c1, c2, s) ==
  [score |-> MeanOrZero(c1 * c2, s),
   details |-> [doc1Chunks |-> c1, doc2Chunks |-> c2, totalComparisons |-> c1 * c2,
                chunkSize |-> 1000, chunkOverlap |-> 200]]
OpenAIRagResult(c1, c2, s) ==
  [score |-> MeanOrZero(c1 * c2, s),
   details |-> [doc1Chunks |-> c1, doc2Chunks |-> c2, retrievedResults |-> c2,
                averageRetrievalScore |-> MeanOrZero(c1 * c2, s)]]
OpenAILlmResult(reply, s) ==
  IF reply = "unparseable"
  THEN [score |-> Half,
        details |-> [reasoning |-> "Error parsing LLM response",
                     method |-> "LLM Analysis (Error)"]]
  ELSE [score |-> IF reply = "expected" THEN s ELSE NotANumber,
        details |-> [reasoning |-> reply, keySimilarities |-> reply,
                     keyDifferences |-> reply, method |-> "LLM Analysis"]]
OpenAICombinedResult(c1, c2, e, r, reply, l) ==
  LET embeddingResult == OpenAIEmbeddingResult(c1, c2, e)
      ragResult == OpenAIRagResult(c1, c2, r)
      llmResult == OpenAILlmResult(reply, l)
  IN  [score |-> WeightedSum(embeddingResult.score, ragResult.score, llmResult.score),
       algorithmName |-> "Semantic Similarity (Embeddings + FAISS + LLM)",
       details |-> [embeddingScore |-> embeddingResult.score,
                    ragScore |-> ragResult.score,
                    llmScore |-> llmResult.score,
                    weights |-> Weights,
                    embeddingDetails |-> embeddingResult.details,
                    ragDetails |-> ragResult.details,
                    llmDetails |-> llmResult.details]]

\* HuggingFaceSimilarityService and bedrockSemanticSimilarity
HfResult(s) == [score |-> s, details |-> [method |-> "HuggingFace MiniLM-L6-v2"]]
BedrockScore(s) == s

\* LocalSemanticSimilarityService
LocalEmbeddingSize(c) == IF c > 0 THEN EmbeddingDim ELSE 0
LocalEmbeddingResult(d1, d2, s) ==
  LET c1 == LocalChunks(d1)
      c2 == LocalChunks(d2)
  IN  [score |-> MeanOrZero(c1 * c2, s),
       details |-> [method |-> "Local Semantic (transformers.js)", model |-> LocalModel,
                    doc1Chunks |-> c1, doc2Chunks |-> c2, totalComparisons |-> c1 * c2,
                    chunkSize |-> 1000, chunkOverlap |-> 200,
                    embedding_size |-> LocalEmbeddingSize(c1)]]
LocalRagResult(d1, d2, s) ==
  LET c1 == LocalChunks(d1)
      c2 == LocalChunks(d2)
  IN  [score |-> MeanOrZero(c1 * c2, s),
       details |-> [method |-> "Local RAG (transformers.js)", model |-> LocalModel,
                    doc1Chunks |-> c1, doc2Chunks |-> c2, retrievedResults |-> c2,
                    averageRetrievalScore |-> MeanOrZero(c1 * c2, s),
                    embedding_size |-> LocalEmbeddingSize(c1)]]
LocalNarrativeFromThreshold(s) ==
  IF ~Below(s, 4, 5) THEN "Documents are highly similar in content and meaning"
  ELSE IF ~Below(s, 3, 5)
       THEN "Documents have moderate similarity with some shared concepts"
  ELSE IF ~Below(s, 2, 5)
       THEN "Documents have low similarity with minimal shared content"
  ELSE "Documents are largely dissimilar with minimal overlap"
LocalNarrative(s) ==
  IF Exceeds(s, 4, 5) THEN "Documents are highly similar in content and meaning"
  ELSE IF Exceeds(s, 3, 5)
       THEN "Documents have moderate similarity with some shared concepts"
  ELSE IF Exceeds(s, 2, 5)
       THEN "Documents have low similarity with minimal shared content"
  ELSE "Documents are largely dissimilar with minimal overlap"
LocalLlmResult(d1, d2, s) ==
  LET c1 == LocalChunks(d1)
      c2 == LocalChunks(d2)
      similarity == MeanOrZero(c1 * c2, s)
  IN  [score |-> similarity,
       details |-> [reasoning |-> LocalNarrative(similarity),
                    keySimilarities |-> LocalNarrative(similarity),
                    keyDifferences |-> LocalNarrative(similarity),
                    method |-> "Local LLM-like Analysis (transformers.js)",
                    model |-> LocalModel, doc1Chunks |-> c1, doc2Chunks |-> c2,
                    embedding_size |-> LocalEmbeddingSize(c1)]]
LocalCombinedResult(d1, d2, e, r, l) ==
  LET embeddingResult == LocalEmbeddingResult(d1, d2, e)
      ragResult == LocalRagResult(d1, d2, r)
      llmResult == LocalLlmResult(d1, d2, l)
  IN  [score |-> WeightedSum(embeddingResult.score, ragResult.score, llmResult.score),
       algorithmName |-> "Local Semantic Similarity (Embeddings + RAG + LLM-like)",
       details |-> [embeddingScore |-> embeddingResult.score,
                    ragScore |-> ragResult.score,
                    llmScore |-> llmResult.score,
                    weights |-> Weights,
                    embeddingDetails |-> embeddingResult.details,
                    ragDetails |-> ragResult.details,
                    llmDetails |-> llmResult.details,
                    method |-> "Local Combined Analysis (transformers.js)",
                    model |-> LocalModel]]

(***************************************************************************)
(* compareSemantic and compareDocuments                                    *)
(***************************************************************************)
\* the case of compareSemantic's switch for algorithm.toLowerCase()
SemanticCase(lowered) ==
  IF lowered = Id_semantic_hf THEN "semantic-hf"
  ELSE IF lowered = Id_semantic_embedding THEN "semantic-embedding"
  ELSE IF lowered = Id_semantic_rag THEN "semantic-rag"
  ELSE IF lowered = Id_semantic_llm THEN "semantic-llm"
  ELSE IF lowered = Id_semantic_bedrock THEN "semantic-bedrock"
  ELSE IF lowered = Id_semantic_local THEN "semantic-local"
  ELSE IF lowered = Id_semantic_local_embedding THEN "semantic-local-embedding"
  ELSE IF lowered = Id_semantic_local_rag THEN "semantic-local-rag"
  ELSE IF lowered = Id_semantic_local_llm THEN "semantic-local-llm"
  ELSE IF lowered = Id_semantic_local_combined THEN "semantic-local-combined"
  ELSE "semantic"

LocalCases == {"semantic-local", "semantic-local-embedding", "semantic-local-rag",
               "semantic-local-llm", "semantic-local-combined"}
SemanticCases == LocalCases \cup {"semantic-hf", "semantic-embedding", "semantic-rag",
                                  "semantic-llm", "semantic-bedrock", "semantic"}

\* the service method each case awaits
ServiceMethod(case) ==
  CASE case = "semantic-hf" -> "hfService.calculateSemanticSimilarity"
    [] case = "semantic-embedding" -> "semanticService.calculateSemanticSimilarity"
    [] case = "semantic-rag" -> "semanticService.calculateRAGSimilarity"
    [] case = "semantic-llm" -> "semanticService.calculateLLMSimilarity"
    [] case = "semantic-bedrock" -> "bedrockSemanticSimilarity"
    [] case = "semantic-local" -> "localService.calculateSemanticSimilarity"
    [] case = "semantic-local-embedding" -> "localService.calculateSemanticSimilarity"
    [] case = "semantic-local-rag" -> "localService.calculateRAGSimilarity"
    [] case = "semantic-local-llm" -> "localService.calculateLLMSimilarity"
    [] case = "semantic-local-combined" -> "localService.calculateCombinedSimilarity"
    [] OTHER -> "semanticService.calculateCombinedSimilarity"

\* what the provider supplies to one semantic comparison: the chunk counts of
\* the OpenAI text splitter, the similarities of the three strategies, the
\* chat model's reply
Outcomes ==
  [c1 : 0..MaxChunks, c2 : 0..MaxChunks, e : SemScores, r : SemScores, l : SemScores,
   reply : LlmReplies]

\* the fields of an outcome the case reads (the others are fixed)
Reads(case) ==
  CASE case \in {"semantic-hf", "semantic-bedrock", "semantic-local",
                 "semantic-local-embedding"} -> {"e"}
    [] case = "semantic-embedding" -> {"c1", "c2", "e"}
    [] case = "semantic-rag" -> {"c1", "c2", "r"}
    [] case = "semantic-llm" -> {"l", "reply"}
    [] case = "semantic-local-rag" -> {"r"}
    [] case = "semantic-local-llm" -> {"l"}
    [] case = "semantic-local-combined" -> {"e", "r", "l"}
    [] OTHER -> {"c1", "c2", "e", "r", "l", "reply"}
OutcomesOf(case) ==
  {o \in Outcomes :
     /\ "c1" \notin Reads(case) => o.c1 = 0
     /\ "c2" \notin Reads(case) => o.c2 = 0
     /\ "e" \notin Reads(case) => o.e = Zero
     /\ "r" \notin Reads(case) => o.r = Zero
     /\ "l" \notin Reads(case) => o.l = Zero
     /\ "reply" \notin Reads(case) => o.reply = "expected"}

\* the object compareSemantic returns in each case
SemanticResult(case, d1, d2, o) ==
  CASE case = "semantic-hf" ->
         [similarity |-> HfResult(o.e).score,
          algorithm |-> "Semantic Similarity (Hugging Face)",
          details |-> HfResult(o.e).details]
    [] case = "semantic-embedding" ->
         [similarity |-> OpenAIEmbeddingResult(o.c1, o.c2, o.e).score,
          algorithm |-> "Semantic Embedding Similarity",
          details |-> OpenAIEmbeddingResult(o.c1, o.c2, o.e).details]
    [] case = "semantic-rag" ->
         [similarity |-> OpenAIRagResult(o.c1, o.c2, o.r).score,
          algorithm |-> "Semantic RAG Similarity",
          details |-> OpenAIRagResult(o.c1, o.c2, o.r).details]
    [] case = "semantic-llm" ->
         [similarity |-> OpenAILlmResult(o.reply, o.l).score,
          algorithm |-> "Semantic LLM Similarity",
          details |-> OpenAILlmResult(o.reply, o.l).details]
    [] case = "semantic-bedrock" ->
         [similarity |-> BedrockScore(o.e),
          algorithm |-> "Semantic Similarity (Amazon Bedrock)",
          details |-> [method |-> "Amazon Bedrock Titan Embeddings"]]
    [] case = "semantic-local" ->
         [similarity |-> LocalEmbeddingResult(d1, d2, o.e).score,
          algorithm |-> "Semantic Similarity (Local)",
          details |-> LocalEmbeddingResult(d1, d2, o.e).details]
    [] case = "semantic-local-embedding" ->
         [similarity |-> LocalEmbeddingResult(d1, d2, o.e).score,
          algorithm |-> "Semantic Embedding Similarity (Local)",
          details |-> LocalEmbeddingResult(d1, d2, o.e).details]
    [] case = "semantic-local-rag" ->
         [similarity |-> LocalRagResult(d1, d2, o.r).score,
          algorithm |-> "Semantic RAG Similarity (Local)",
          details |-> LocalRagResult(d1, d2, o.r).details]
    [] case = "semantic-local-llm" ->
         [similarity |-> LocalLlmResult(d1, d2, o.l).score,
          algorithm |-> "Semantic LLM Similarity (Local)",
          details |-> LocalLlmResult(d1, d2, o.l).details]
    [] case = "semantic-local-combined" ->
         [similarity |-> LocalCombinedResult(d1, d2, o.e, o.r, o.l).score,
          algorithm |-> LocalCombinedResult(d1, d2, o.e, o.r, o.l).algorithmName,
          details |-> LocalCombinedResult(d1, d2, o.e, o.r, o.l).details]
    [] OTHER ->
         [similarity |-> OpenAICombinedResult(o.c1, o.c2, o.e, o.r, o.reply, o.l).score,
          algorithm |-> OpenAICombinedResult(o.c1, o.c2, o.e, o.r, o.reply, o.l).algorithmName,
          details |-> OpenAICombinedResult(o.c1, o.c2, o.e, o.r, o.reply, o.l).details]

\* calls to the embedding or chat provider made by a comparison that completes
ProviderCallsOf(case, d1, d2, o) ==
  LET local == LocalChunks(d1) + LocalChunks(d2)
  IN  CASE case \in {"semantic-hf", "semantic-bedrock", "semantic-embedding"} -> 2
        [] case = "semantic-rag" -> 1 + o.c2
        [] case = "semantic-llm" -> 1
        [] case \in {"semantic-local", "semantic-local-embedding", "semantic-local-rag",
                     "semantic-local-llm"} -> local
        [] case = "semantic-local-combined" -> 3 * local
        [] OTHER -> 2 + (1 + o.c2) + 1

\* res.json's JSON.stringify: NaN becomes null, an undefined member is left out
JsonNull == [k |-> "null"]
JsonNumber(x) == IF x.k = "nan" THEN JsonNull ELSE x
ScoreMembers == {"similarity", "embeddingScore", "ragScore", "llmScore"}
JsonObject(obj) ==
  [m \in {f \in DOMAIN obj : f \in ScoreMembers => obj[f] # NotANumber} |->
     IF m \in ScoreMembers THEN JsonNumber(obj[m]) ELSE obj[m]]
JsonBody(body) ==
  LET top == JsonObject(body)
  IN  [m \in DOMAIN top |-> IF m = "details" THEN JsonObject(top[m]) ELSE top[m]]

NoResponse == [status |-> 0]

\* algorithm.startsWith('semantic')
IsSemanticAnyCase(alg) == startsWith(toLowerCase(alg), Id_semantic)
IsSemantic(alg) == startsWith(alg, Id_semantic)

ReqDocs == SeqsUpTo(MaxReqLen)

Init ==
  /\ doc1 = <<>>
  /\ doc2 = <<>>
  /\ algorithm = Undefined
  /\ pc = "idle"
  /\ handledBy = <<>>
  /\ branch = "none"
  /\ providerCalls = 0
  /\ res = NoResponse
  /\ fn = "none"
  /\ nArg = 0
  /\ fwd = Unset
  /\ rev = Unset
  /\ toks = <<>>
  /\ retoks = <<>>
  /\ SvcIdle

\* POST /compare arrives
Receive ==
  /\ pc = "idle"
  /\ doc1' \in ReqDocs
  /\ doc2' \in ReqDocs
  /\ algorithm' \in AlgorithmInputs
  /\ pc' = "received"
  /\ UNCHANGED <<handledBy, branch, providerCalls, res>>
  /\ UNCHANGED lexVars
  /\ UNCHANGED svcVars

RejectMissingWithoutReturn ==
  /\ pc = "received"
  /\ doc1 = <<>> \/ doc2 = <<>>
  /\ res = NoResponse
  /\ res' = [status |-> 400, body |-> [error |-> "Both documents required"]]
  /\ UNCHANGED <<doc1, doc2, algorithm, pc, handledBy, branch, providerCalls>>
  /\ UNCHANGED lexVars
  /\ UNCHANGED svcVars

\* compareDocuments: a document is missing or empty
RejectMissing ==
  /\ pc = "received"
  /\ doc1 = <<>> \/ doc2 = <<>>
  /\ res' = [status |-> 400, body |-> [error |-> "Both documents required"]]
  /\ pc' = "responded"
  /\ UNCHANGED <<doc1, doc2, algorithm, handledBy, branch, providerCalls>>
  /\ UNCHANGED lexVars
  /\ UNCHANGED svcVars

\* compareDocuments: algorithm.startsWith is not a function
RoutingThrows ==
  /\ pc = "received"
  /\ doc1 # <<>> /\ doc2 # <<>>
  /\ algorithm = NonString
  /\ res' = [status |-> 500,
             body |-> [error |-> "Internal server error",
                       details |-> "algorithm.startsWith is not a function"]]
  /\ pc' = "responded"
  /\ UNCHANGED <<doc1, doc2, algorithm, handledBy, branch, providerCalls>>
  /\ UNCHANGED lexVars
  /\ UNCHANGED svcVars

\* compareDocuments: the lexical path, synchronous to the response
LexicalCompare ==
  /\ pc = "received"
  /\ doc1 # <<>> /\ doc2 # <<>>
  /\ algorithm # NonString
  /\ ~IsSemantic(DefaultedAlgorithm(algorithm))
  /\ LET alg == DefaultedAlgorithm(algorithm)
         result == compare(doc1, doc2, alg)
     IN  /\ branch' = LexicalCase(toLowerCase(alg))
         /\ handledBy' = <<"compare", LexicalFunction(LexicalCase(toLowerCase(alg)))>>
         /\ res' = [status |-> 200,
                    body |-> JsonBody([similarity |-> result.score,
                                       algorithm |-> result.algorithmName,
                                       details |-> result.details])]
  /\ pc' = "responded"
  /\ UNCHANGED <<doc1, doc2, algorithm, providerCalls>>
  /\ UNCHANGED lexVars
  /\ UNCHANGED svcVars

\* compareDocuments: the semantic path, up to the await of the service
SemanticDispatch ==
  /\ pc = "received"
  /\ doc1 # <<>> /\ doc2 # <<>>
  /\ algorithm # NonString
  /\ IsSemantic(DefaultedAlgorithm(algorithm))
  /\ LET case == SemanticCase(toLowerCase(DefaultedAlgorithm(algorithm)))
     IN  /\ branch' = case
         /\ handledBy' = <<"compareSemantic", ServiceMethod(case)>>
  /\ pc' = "awaiting"
  /\ UNCHANGED <<doc1, doc2, algorithm, providerCalls, res>>
  /\ UNCHANGED lexVars
  /\ UNCHANGED svcVars

\* the service resolves: compareSemantic returns and res.json sends the result
ServiceResolves ==
  /\ pc = "awaiting"
  /\ \E o \in OutcomesOf(branch) :
       /\ res' = [status |-> 200, body |-> JsonBody(SemanticResult(branch, doc1, doc2, o))]
       /\ providerCalls' = ProviderCallsOf(branch, doc1, doc2, o)
  /\ pc' = "responded"
  /\ UNCHANGED <<doc1, doc2, algorithm, handledBy, branch>>
  /\ UNCHANGED lexVars
  /\ UNCHANGED svcVars

\* a provider call of a remote service fails: the error is rethrown up to
\* compareDocuments' catch
ServiceRejects ==
  /\ pc = "awaiting"
  /\ branch \notin LocalCases
  /\ \E o \in OutcomesOf(branch) :
       \E k \in 1..ProviderCallsOf(branch, doc1, doc2, o) : providerCalls' = k
  /\ res' = [status |-> 500,
             body |-> [error |-> "Internal server error", details |-> "provider error"]]
  /\ pc' = "responded"
  /\ UNCHANGED <<doc1, doc2, algorithm, handledBy, branch>>
  /\ UNCHANGED lexVars
  /\ UNCHANGED svcVars

\* the request is over; nothing of it is kept
Done ==
  /\ pc = "responded"
  /\ doc1' = <<>>
  /\ doc2' = <<>>
  /\ algorithm' = Undefined
  /\ pc' = "idle"
  /\ handledBy' = <<>>
  /\ branch' = "none"
  /\ providerCalls' = 0
  /\ res' = NoResponse
  /\ UNCHANGED lexVars
  /\ UNCHANGED svcVars

Next ==
  \/ Receive
  \/ RejectMissing
  \/ RoutingThrows
  \/ LexicalCompare
  \/ SemanticDispatch
  \/ ServiceResolves
  \/ ServiceRejects
  \/ Done

Spec == Init /\ [][Next]_vars

(***************************************************************************)
(* Properties of the lexical functions (checked under LexSpec).            *)
(***************************************************************************)
VectorEntries == LET v == cosineVectors(doc1, doc2)
                 IN  {v[1][w] : w \in DOMAIN v[1]} \cup {v[2][w] : w \in DOMAIN v[2]}

\* C1: when one document tokenizes to nothing and the other to at least one
\* token, jaccardSimilarity, cosineSimilarity and ngramSimilarity each return
\* exactly 0 (never NaN), in either argument order.  (Stated for documents
\* that are not the empty string, the ones a request can carry.)
C1_EmptyAgainstNonEmptyIsZero ==
  (Scored /\ OneSideEmpty /\ doc1 # <<>> /\ doc2 # <<>>)
    => (IsZeroScore(fwd) /\ IsZeroScore(rev))

C3_JaccardSelfNonEmptyIsOne ==
  fn = "jaccard"
    => /\ (doc1 = doc2 /\ doc1 # <<>>) => fwd = One
       /\ (Tokens1 = <<>> /\ Tokens2 = <<>>) => fwd = Zero

\* C3 as amended: jaccardSimilarity(d, d) = 1 for any document d with at least
\* one token, and jaccardSimilarity of two documents with an empty vocabulary
\* is 0.
C3_JaccardSelfTokenizedIsOne ==
  fn = "jaccard"
    => /\ (doc1 = doc2 /\ Tokens1 # <<>>) => fwd = One
       /\ (Tokens1 = <<>> /\ Tokens2 = <<>>) => fwd = Zero

C3_Witness ==
  /\ fn = "jaccard"
  /\ doc1 = doc2
  /\ Cardinality(Range(Tokens1)) >= 2
  /\ fwd = One

C5_CosineInUnitInterval ==
  (fn = "cosine" /\ doc1 # <<>> /\ doc2 # <<>>)
    => /\ InUnitInterval(fwd)
       /\ \A e \in VectorEntries : ~IsNaN(e) /\ e.c >= 0

\* C6: ngramSimilarity(d1, d2, n) = 0 whenever both documents have fewer than n
\* tokens: both n-gram sets are empty and the empty union is guarded.
C6_ShortDocumentsScoreZero ==
  (fn = "ngram" /\ Len(Tokens1) < nArg /\ Len(Tokens2) < nArg)
    => /\ createNGrams(doc1, nArg) = {}
       /\ createNGrams(doc2, nArg) = {}
       /\ fwd = Zero

C6_Witness ==
  /\ fn = "ngram" /\ nArg = DefaultN
  /\ Len(Tokens1) = 2 /\ Len(Tokens2) = 1
  /\ fwd = Zero

\* C7: tokenize is idempotent (tokenizing the tokens joined by a space gives
\* the same sequence), empty input gives the empty sequence, and every token
\* is non-empty and made only of the characters a-z and 0-9.
C7_TokenizeIdempotent ==
  fn = "tokenize"
    => /\ retoks = toks
       /\ doc1 = <<>> => toks = <<>>
       /\ \A i \in DOMAIN toks :
            toks[i] # <<>> /\ Range(toks[i]) \subseteq WordChars

C7_Witness ==
  /\ fn = "tokenize"
  /\ Len(toks) >= 2
  /\ "B" \in Range(doc1) /\ "." \in Range(doc1)
  /\ retoks = toks

(***************************************************************************)
(* Properties of the dispatcher (checked under Spec).                      *)
(***************************************************************************)
\* a request with both documents and a string (or absent) algorithm
Routable == doc1 # <<>> /\ doc2 # <<>> /\ algorithm # NonString
Routed == pc \in {"awaiting", "responded"} /\ Routable
IsIdentifier(a) == a \notin {Undefined, NonString}
JaccardReply ==
  /\ res.status = 200
  /\ res.body.similarity = jaccardSimilarity(doc1, doc2)
  /\ res.body.algorithm = "Jaccard Similarity"

\* C8 as stated: for any algorithm identifier that is not a recognized
\* identifier (not an id of the catalog, in any letter case) the comparison
\* falls back to Jaccard: the score returned is jaccardSimilarity(doc1, doc2)
\* and the name is "Jaccard Similarity".
C8_UnrecognizedFallsBackToJaccard ==
  (pc = "responded" /\ Routable /\ IsIdentifier(algorithm)
     /\ toLowerCase(algorithm) \notin CatalogIds)
    => JaccardReply

\* C8 as amended: for any algorithm identifier that is not a recognized
\* identifier and does not begin with "semantic", the comparison falls back
\* to Jaccard (score jaccardSimilarity(doc1, doc2), name "Jaccard
\* Similarity"); an unrecognized identifier that begins with "semantic" is
\* handled by the default case of compareSemantic, the Combined strategy,
\* instead.
C8_NonSemanticUnrecognizedFallsBackToJaccard ==
  /\ (pc = "responded" /\ Routable /\ IsIdentifier(algorithm)
        /\ toLowerCase(algorithm) \notin CatalogIds
        /\ ~startsWith(algorithm, Id_semantic))
       => JaccardReply
  /\ (Routed /\ IsIdentifier(algorithm)
        /\ toLowerCase(algorithm) \notin CatalogIds
        /\ startsWith(algorithm, Id_semantic))
       => handledBy = <<"compareSemantic", "semanticService.calculateCombinedSimilarity">>

C8_Witness ==
  /\ pc = "responded"
  /\ algorithm = Id_tfidf
  /\ Tokens1 # <<>> /\ Tokens1 = Tokens2
  /\ res.status = 200
  /\ res.body.similarity = One
  /\ res.body.algorithm = "Jaccard Similarity"

\* C9 as stated: an identifier beginning with "semantic" is handled by
\* compareSemantic and never by a lexical function; every other identifier is
\* handled by compare without any provider call, where "cosine" selects
\* cosineSimilarity, "ngram" selects ngramSimilarity and anything else selects
\* jaccardSimilarity.
C9_DispatchByPrefixExactNames ==
  Routed =>
    LET alg == DefaultedAlgorithm(algorithm)
    IN  /\ Len(handledBy) = 2
        /\ IF startsWith(alg, Id_semantic)
           THEN handledBy[1] = "compareSemantic" /\ handledBy[2] \notin LexicalFunctions
           ELSE /\ handledBy[1] = "compare"
                /\ pc = "responded" /\ providerCalls = 0
                /\ handledBy[2] = (IF alg = Id_cosine THEN "cosineSimilarity"
                                   ELSE IF alg = Id_ngram THEN "ngramSimilarity"
                                   ELSE "jaccardSimilarity")

\* C9 as amended: an identifier beginning with "semantic" is handled by
\* compareSemantic and never by a lexical function; every other identifier is
\* handled by compare without any provider call, where an identifier that is
\* "cosine" in any letter case selects cosineSimilarity, one that is "ngram"
\* in any letter case selects ngramSimilarity and anything else selects
\* jaccardSimilarity.
C9_DispatchByPrefixAnyCaseNames ==
  Routed =>
    LET alg == DefaultedAlgorithm(algorithm)
    IN  /\ Len(handledBy) = 2
        /\ IF startsWith(alg, Id_semantic)
           THEN handledBy[1] = "compareSemantic" /\ handledBy[2] \notin LexicalFunctions
           ELSE /\ handledBy[1] = "compare"
                /\ pc = "responded" /\ providerCalls = 0
                /\ handledBy[2] = (IF toLowerCase(alg) = Id_cosine THEN "cosineSimilarity"
                                   ELSE IF toLowerCase(alg) = Id_ngram THEN "ngramSimilarity"
                                   ELSE "jaccardSimilarity")

C9_Witness ==
  /\ pc = "responded"
  /\ algorithm = Id_COSINE
  /\ handledBy = <<"compare", "cosineSimilarity">>
  /\ providerCalls = 0
  /\ res.status = 200

\* C10: every successful comparison, whichever branch produced it, answers
\* with exactly the three members similarity (a number), algorithm (a string)
\* and details (an object).
C10_UniformResultShape ==
  (pc = "responded" /\ res.status = 200)
    => /\ DOMAIN res.body = {"similarity", "algorithm", "details"}
       /\ res.body.similarity.k \in {"num", "cos"}
       /\ res.body.algorithm \in STRING
       /\ DOMAIN res.body.details # {}
\* the diagnostics C11 speaks of, and those each semantic case reports at the
\* top level of details
Diagnostics == {"method", "model", "doc1Chunks", "doc2Chunks"}
DiagnosticsOf(case) ==
  CASE case \in {"semantic-hf", "semantic-bedrock", "semantic-llm"} -> {"method"}
    [] case \in {"semantic-embedding", "semantic-rag"} -> {"doc1Chunks", "doc2Chunks"}
    [] case \in {"semantic-local", "semantic-local-embedding", "semantic-local-rag",
                 "semantic-local-llm"} -> Diagnostics
    [] case = "semantic-local-combined" -> {"method", "model"}
    [] OTHER -> {}
Succeeded == pc = "responded" /\ res.status = 200
LexicalBranches == {"jaccard", "cosine", "ngram"}
CombinedBranches == {"semantic", "semantic-local-combined"}

\* C11 as stated: every lexical result's details has doc1Words and doc2Words,
\* the token counts of the two documents; every semantic result's details has a
\* method name, a model identifier and both chunk counts, and for Combined also
\* the three sub-scores and the weights.
C11_DetailsCarryFamilyDiagnostics ==
  Succeeded =>
    /\ branch \in LexicalBranches =>
         /\ res.body.details.doc1Words = Len(Tokens1)
         /\ res.body.details.doc2Words = Len(Tokens2)
    /\ branch \notin LexicalBranches => Diagnostics \subseteq DOMAIN res.body.details
    /\ branch \in CombinedBranches =>
         {"embeddingScore", "ragScore", "llmScore", "weights"} \subseteq DOMAIN res.body.details

\* C11 as amended: every lexical result's details is exactly doc1Words and
\* doc2Words, the token counts; of method, model and the two chunk counts a
\* semantic result's details has all four only for the four single Local
\* strategies, method and model for Local Combined, method alone for
\* semantic-hf, semantic-bedrock and semantic-llm, the chunk counts alone for
\* semantic-embedding and semantic-rag, none for OpenAI Combined; both Combined
\* results carry the weights and the sub-scores (the llm sub-score of OpenAI
\* Combined only when the chat reply has one: without it the score is null).
C11_DetailsCarryBranchDiagnostics ==
  Succeeded =>
    /\ branch \in LexicalBranches =>
         res.body.details = [doc1Words |-> Len(Tokens1), doc2Words |-> Len(Tokens2)]
    /\ branch \notin LexicalBranches =>
         DOMAIN res.body.details \cap Diagnostics = DiagnosticsOf(branch)
    /\ branch \in CombinedBranches =>
         /\ {"embeddingScore", "ragScore", "weights"} \subseteq DOMAIN res.body.details
         /\ res.body.details.weights = Weights
         /\ \/ "llmScore" \in DOMAIN res.body.details
            \/ branch = "semantic" /\ res.body.similarity = JsonNull

C11_Witness ==
  /\ Succeeded
  /\ branch = "cosine"
  /\ res.body.details.doc1Words = 1
  /\ res.body.details.doc2Words = 0
\* C12: the Combined score equals 0.4*embeddingScore + 0.3*ragScore +
\* 0.3*llmScore for the three sub-scores reported in details, in the OpenAI
\* and the Local Combined strategy, and the reported weights are always
\* {embedding 0.4, rag 0.3, llm 0.3}.
C12_CombinedIsWeightedSum ==
  (Succeeded /\ branch \in CombinedBranches) =>
    LET d == res.body.details
        s == res.body.similarity
    IN  /\ d.weights = [embedding |-> Num(2, 5), rag |-> Num(3, 10), llm |-> Num(3, 10)]
        /\ {"embeddingScore", "ragScore", "llmScore"} \subseteq DOMAIN d =>
             /\ s.k = "num"
             /\ 10 * s.n * (d.embeddingScore.d * d.ragScore.d * d.llmScore.d)
                  = s.d * (4 * d.embeddingScore.n * d.ragScore.d * d.llmScore.d
                           + 3 * d.ragScore.n * d.embeddingScore.d * d.llmScore.d
                           + 3 * d.llmScore.n * d.embeddingScore.d * d.ragScore.d)

C12_Witness ==
  /\ Succeeded
  /\ branch = "semantic-local-combined"
  /\ res.body.details.embeddingScore = One
  /\ res.body.details.ragScore = Zero
  /\ res.body.details.llmScore = Half
  /\ res.body.similarity = Num(11, 20)
\* C20: in the chat-completion narrative strategy, whenever the reply is not
\* the expected JSON object the call returns the neutral score 0.5 with a
\* diagnostic note in details, so the returned score is always a number.  (In
\* the model details.reasoning tells which reply was read.)
C20_UnexpectedReplyGivesNeutralScore ==
  (Succeeded /\ branch = "semantic-llm") =>
    /\ "similarity" \in DOMAIN res.body
    /\ res.body.similarity.k = "num"
    /\ res.body.details.reasoning # "expected" =>
         /\ res.body.similarity = Half
         /\ res.body.details.method = "LLM Analysis (Error)"
(***************************************************************************)
(* ChunkSpec: LocalSemanticSimilarityService.splitText, one loop iteration *)
(* per step, called with any chunkSize >= 1 and chunkOverlap >= 0.         *)
(***************************************************************************)
MaxChunkSize == 3
\* iterations followed of a loop that does not end
MaxRun == 3

LexIdle ==
  /\ fn = "none"
  /\ nArg = 0
  /\ fwd = Unset
  /\ rev = Unset
  /\ toks = <<>>
  /\ retoks = <<>>

\* Array.prototype.slice(start, end), indices from 0, negative ones from the end
SliceIndex(len, k) ==
  IF k < 0 THEN (IF len + k < 0 THEN 0 ELSE len + k)
  ELSE IF k > len THEN len ELSE k
Slice(arr, start, end) ==
  SubSeq(arr, SliceIndex(Len(arr), start) + 1, SliceIndex(Len(arr), end))

WindowShort(words, i, chunkSize) == Slice(words, i, i + chunkSize - 1)
\* words.slice(i, i + chunkSize)
Window(words, i, chunkSize) == Slice(words, i, i + chunkSize)

\* chunk.trim() is not the empty string
NotBlank(chunk) == \E j \in DOMAIN chunk : ~IsSpace(chunk[j])

NextStartNoOverlap(i, chunkSize, chunkOverlap) == i + chunkSize
\* i += chunkSize - chunkOverlap
NextStart(i, chunkSize, chunkOverlap) == i + chunkSize - chunkOverlap

ChunkInit ==
  /\ doc1 \in Docs
  /\ doc2 = <<>>
  /\ LexIdle
  /\ ReqIdle
  /\ SvcIdle

\* splitText(doc1, chunkSize, chunkOverlap) is called: words and chunks are set
CallSplitText ==
  /\ split.pc = "idle"
  /\ \E chunkSize \in 1..MaxChunkSize, chunkOverlap \in 0..MaxChunkSize :
       split' = [pc |-> "loop", chunkSize |-> chunkSize, chunkOverlap |-> chunkOverlap,
                 words |-> SplitSpaces(doc1), i |-> 0, chunks |-> <<>>]
  /\ UNCHANGED <<doc1, doc2>>
  /\ UNCHANGED lexVars
  /\ UNCHANGED reqVars
  /\ UNCHANGED taskVars
  /\ UNCHANGED loadVars
  /\ UNCHANGED embedVars
  /\ UNCHANGED uiVars

\* one iteration of the for loop
SplitLoop ==
  /\ split.pc = "loop"
  /\ split.i < Len(split.words)
  /\ split.chunkOverlap >= split.chunkSize =>
       (Len(split.chunks) < MaxRun /\ split.i > -MaxRun)
  /\ LET chunk == JoinSpace(Window(split.words, split.i, split.chunkSize))
     IN  split' = [split EXCEPT
                     !.chunks = IF NotBlank(chunk) THEN Append(@, chunk) ELSE @,
                     !.i = NextStart(@, split.chunkSize, split.chunkOverlap)]
  /\ UNCHANGED <<doc1, doc2>>
  /\ UNCHANGED lexVars
  /\ UNCHANGED reqVars
  /\ UNCHANGED taskVars
  /\ UNCHANGED loadVars
  /\ UNCHANGED embedVars
  /\ UNCHANGED uiVars

\* the loop condition fails: return chunks
SplitReturn ==
  /\ split.pc = "loop"
  /\ split.i >= Len(split.words)
  /\ split' = [split EXCEPT !.pc = "returned"]
  /\ UNCHANGED <<doc1, doc2>>
  /\ UNCHANGED lexVars
  /\ UNCHANGED reqVars
  /\ UNCHANGED taskVars
  /\ UNCHANGED loadVars
  /\ UNCHANGED embedVars
  /\ UNCHANGED uiVars

ChunkNext == CallSplitText \/ SplitLoop \/ SplitReturn

ChunkSpec == ChunkInit /\ [][ChunkNext]_vars
(***************************************************************************)
(* Properties of splitText (checked under ChunkSpec).                      *)
(***************************************************************************)
\* ceil(a / b) for b > 0
CeilDiv(a, b) == -((-a) \div b)
\* the words of a text or of a chunk: its pieces between whitespace, the empty
\* ones (before leading and after trailing whitespace) left out
WordsOf(t) == SelectSeq(SplitSpaces(t), NonEmptyPiece)
Returned == split.pc = "returned"
Stride == split.chunkSize - split.chunkOverlap

\* C15 as stated: for a document of N words and overlap < size, splitText
\* returns exactly ceil((N - overlap) / (size - overlap)) chunks, each of at
\* most size words.  (Stated for documents of N >= 1 words without leading or
\* trailing whitespace.)
C15_ChunkCountFromSlidingWindows ==
  (Returned /\ split.chunkOverlap < split.chunkSize /\ WordsOf(doc1) = split.words) =>
    /\ Len(split.chunks) = CeilDiv(Len(WordsOf(doc1)) - split.chunkOverlap, Stride)
    /\ \A k \in DOMAIN split.chunks : Len(WordsOf(split.chunks[k])) <= split.chunkSize

\* C15 as amended: for overlap < size, splitText returns one chunk per window
\* start 0, s, 2s, ... (s = size - overlap) below the number of pieces of
\* text.split(/\s+/), except the windows that hold no word; for a document of
\* N words without leading or trailing whitespace that is exactly
\* ceil(N / (size - overlap)) chunks; each chunk holds at most size words.
C15_ChunkCountFromWindowStarts ==
  (Returned /\ split.chunkOverlap < split.chunkSize) =>
    /\ Len(split.chunks)
         = Cardinality({k \in 0..(CeilDiv(Len(split.words), Stride) - 1) :
                          \E j \in (k * Stride + 1)..(k * Stride + split.chunkSize) :
                             j \in DOMAIN split.words /\ split.words[j] # <<>>})
    /\ WordsOf(doc1) = split.words =>
         Len(split.chunks) = CeilDiv(Len(WordsOf(doc1)), Stride)
    /\ \A k \in DOMAIN split.chunks : Len(WordsOf(split.chunks[k])) <= split.chunkSize

C15_Witness ==
  /\ Returned
  /\ split.chunkSize = 2 /\ split.chunkOverlap = 1
  /\ Len(split.words) = 3 /\ WordsOf(doc1) = split.words
  /\ Len(split.chunks) = 3
\* a sequence without its first k elements
DropFirst(seq, k) == SubSeq(seq, k + 1, Len(seq))
\* the first chunk whole, then of each later chunk the words after its first
\* overlap words
RECURSIVE LaterWords(_, _)
LaterWords(chunks, overlap) ==
  IF chunks = <<>> THEN <<>>
  ELSE DropFirst(WordsOf(Head(chunks)), overlap) \o LaterWords(Tail(chunks), overlap)
Reconstruct(chunks, overlap) ==
  IF chunks = <<>> THEN <<>>
  ELSE WordsOf(Head(chunks)) \o LaterWords(Tail(chunks), overlap)

\* C16: for overlap < size the chunks reconstruct the word sequence: the first
\* chunk whole followed by the words after the first overlap words of each
\* later chunk is exactly the document's words in order.
C16_ChunksReconstructWords ==
  (Returned /\ split.chunkOverlap < split.chunkSize) =>
    Reconstruct(split.chunks, split.chunkOverlap) = WordsOf(doc1)

C16_Witness ==
  /\ Returned
  /\ split.chunkSize = 3 /\ split.chunkOverlap = 1
  /\ Len(WordsOf(doc1)) = 3
  /\ Len(split.chunks) = 2
  /\ Reconstruct(split.chunks, split.chunkOverlap) = WordsOf(doc1)
\* C17: splitText terminates for every text when overlap < size (the index
\* advances by size - overlap >= 1 up to the number of words), and a call with
\* overlap >= size is rejected as a configuration error: it executes no
\* iteration of the loop.
C17_TerminatesOrRejectsConfiguration ==
  split.pc = "loop" =>
    IF split.chunkOverlap < split.chunkSize
    THEN /\ split.i % Stride = 0
         /\ split.i < Len(split.words) + Stride
    ELSE split.i = 0 /\ split.chunks = <<>>

(***************************************************************************)
(* ServiceSpec: one semantic request with the awaited service method       *)
(* refined to its provider calls.  A step is one provider event (a call    *)
(* returns or fails) together with the promise reactions it triggers, which *)
(* run to completion before the next event is delivered.                   *)
(***************************************************************************)
ServiceDocs1 == {<<"a">>}
ServiceDocs2 == {<<"B">>}
SemanticIds == {Id_semantic, Id_semantic_embedding, Id_semantic_rag, Id_semantic_llm,
                Id_semantic_hf, Id_semantic_bedrock, Id_semantic_local,
                Id_semantic_local_embedding, Id_semantic_local_rag,
                Id_semantic_local_llm, Id_semantic_local_combined}

\* the order of the strategy calls in the array literal given to Promise.all
StrategyOrder == <<"hf", "bedrock", "embedding", "rag", "llm",
                   "local-embedding", "local-rag", "local-llm">>

StartedByOneAtATime(case) ==
  CASE case = "semantic-hf" -> {"hf"}
    [] case = "semantic-bedrock" -> {"bedrock"}
    [] case = "semantic-rag" -> {"rag"}
    [] case = "semantic-llm" -> {"llm"}
    [] case \in {"semantic-local", "semantic-local-embedding",
                 "semantic-local-combined"} -> {"local-embedding"}
    [] case = "semantic-local-rag" -> {"local-rag"}
    [] case = "semantic-local-llm" -> {"local-llm"}
    [] OTHER -> {"embedding"}

\* the strategy calls the service method of a case makes before its first
\* await; the Combined methods make three, as the elements of one array
StartedBy(case) ==
  CASE case = "semantic-hf" -> {"hf"}
    [] case = "semantic-bedrock" -> {"bedrock"}
    [] case = "semantic-embedding" -> {"embedding"}
    [] case = "semantic-rag" -> {"rag"}
    [] case = "semantic-llm" -> {"llm"}
    [] case \in {"semantic-local", "semantic-local-embedding"} -> {"local-embedding"}
    [] case = "semantic-local-rag" -> {"local-rag"}
    [] case = "semantic-local-llm" -> {"local-llm"}
    [] case = "semantic-local-combined" -> {"local-embedding", "local-rag", "local-llm"}
    [] OTHER -> {"embedding", "rag", "llm"}

LocalStrategies == {"local-embedding", "local-rag", "local-llm"}

\* the provider calls a strategy awaits one after the other when none fails
PlannedCalls(t, d1, d2, o) ==
  CASE t \in {"hf", "bedrock", "embedding"} -> 2
    [] t = "rag" -> 1 + o.c2
    [] t = "llm" -> 1
    [] OTHER -> LocalChunks(d1) + LocalChunks(d2)

OnProviderErrorSubstitute(t) == "substitute"

\* what the code around an awaited provider call does when the call throws:
\* the remote strategies rethrow (or have no catch), the Local createEmbeddings
\* puts a zero vector in the place of the embedding and goes on
OnProviderError(t) == IF t \in LocalStrategies THEN "substitute" ELSE "rethrow"

\* a strategy after its pending call came back: the next call, or its result
TaskAfterReturn(task, planned) ==
  IF task.issued < planned THEN [task EXCEPT !.issued = @ + 1]
  ELSE [task EXCEPT !.st = "fulfilled"]

\* the similarities the strategies end with: a zero vector makes every cosine
\* it enters 0
Observed(o, ts) ==
  [o EXCEPT !.e = IF ts["local-embedding"].failedAt > 0 THEN Zero ELSE @,
            !.r = IF ts["local-rag"].failedAt > 0 THEN Zero ELSE @,
            !.l = IF ts["local-llm"].failedAt > 0 THEN Zero ELSE @]

ServiceInit ==
  /\ doc1 \in ServiceDocs1
  /\ doc2 \in ServiceDocs2
  /\ algorithm \in SemanticIds
  /\ pc = "received"
  /\ handledBy = <<>>
  /\ branch = "none"
  /\ providerCalls = 0
  /\ res = NoResponse
  /\ LexIdle
  /\ SvcIdle

\* compareSemantic calls the service method, which runs to its first await
ServiceCalled ==
  /\ pc = "awaiting"
  /\ \A t \in Strategies : tasks[t].st = "unstarted"
  /\ answers' \in OutcomesOf(branch)
  /\ tasks' = [t \in Strategies |->
                 IF t \in StartedBy(branch)
                 THEN [st |-> "pending", issued |-> 1, failedAt |-> 0]
                 ELSE Unstarted]
  /\ wire' = SelectSeq([k \in DOMAIN StrategyOrder |-> <<StrategyOrder[k], 1>>],
                       LAMBDA c : c[1] \in StartedBy(branch))
  /\ providerCalls' = Len(wire')
  /\ UNCHANGED <<doc1, doc2, algorithm, pc, handledBy, branch, res>>
  /\ UNCHANGED lexVars
  /\ UNCHANGED chunkVars
  /\ UNCHANGED loadVars
  /\ UNCHANGED embedVars
  /\ UNCHANGED uiVars

\* the reactions to a settled strategy: res.json once every strategy of the
\* method is fulfilled
RespondWhenAllFulfilled ==
  IF pc = "awaiting" /\ \A u \in StartedBy(branch) : tasks'[u].st = "fulfilled"
  THEN /\ pc' = "responded"
       /\ res' = [status |-> 200,
                  body |-> JsonBody(SemanticResult(branch, doc1, doc2,
                                                   Observed(answers, tasks')))]
  ELSE UNCHANGED <<pc, res>>

\* the pending provider call of strategy t returns
ProviderReturns(t) ==
  /\ tasks[t].st = "pending"
  /\ LET planned == PlannedCalls(t, doc1, doc2, answers)
     IN  /\ tasks' = [tasks EXCEPT ![t] = TaskAfterReturn(@, planned)]
         /\ wire' = IF tasks[t].issued < planned
                    THEN Append(wire, <<t, tasks[t].issued + 1>>) ELSE wire
  /\ providerCalls' = Len(wire')
  /\ RespondWhenAllFulfilled
  /\ UNCHANGED <<doc1, doc2, algorithm, handledBy, branch, answers>>
  /\ UNCHANGED lexVars
  /\ UNCHANGED chunkVars
  /\ UNCHANGED loadVars
  /\ UNCHANGED embedVars
  /\ UNCHANGED uiVars

\* the pending provider call of strategy t fails
ProviderFails(t) ==
  /\ tasks[t].st = "pending"
  /\ LET planned == PlannedCalls(t, doc1, doc2, answers)
         failed == [tasks[t] EXCEPT !.failedAt = tasks[t].issued]
     IN  IF OnProviderError(t) = "rethrow"
         THEN /\ tasks' = [tasks EXCEPT ![t] = [failed EXCEPT !.st = "rejected"]]
              /\ wire' = wire
              /\ IF pc = "awaiting"
                 THEN /\ pc' = "responded"
                      /\ res' = [status |-> 500,
                                 body |-> [error |-> "Internal server error",
                                           details |-> <<"provider error", t,
                                                         tasks[t].issued>>]]
                 ELSE UNCHANGED <<pc, res>>
         ELSE /\ tasks' = [tasks EXCEPT ![t] = TaskAfterReturn(failed, planned)]
              /\ wire' = IF tasks[t].issued < planned
                         THEN Append(wire, <<t, tasks[t].issued + 1>>) ELSE wire
              /\ RespondWhenAllFulfilled
  /\ providerCalls' = Len(wire')
  /\ UNCHANGED <<doc1, doc2, algorithm, handledBy, branch, answers>>
  /\ UNCHANGED lexVars
  /\ UNCHANGED chunkVars
  /\ UNCHANGED loadVars
  /\ UNCHANGED embedVars
  /\ UNCHANGED uiVars

ServiceNext ==
  \/ SemanticDispatch
  \/ ServiceCalled
  \/ \E t \in Strategies : ProviderReturns(t)
  \/ \E t \in Strategies : ProviderFails(t)

ServiceSpec == ServiceInit /\ [][ServiceNext]_vars

(***************************************************************************)
(* Properties of the service calls (checked under ServiceSpec).            *)
(***************************************************************************)
CombinedStrategies ==
  IF branch = "semantic" THEN {"embedding", "rag", "llm"}
  ELSE {"local-embedding", "local-rag", "local-llm"}
Settled(t) == tasks[t].st \in {"fulfilled", "rejected"}
InCombined == branch \in CombinedBranches /\ pc \in {"awaiting", "responded"}
SubScore(t) ==
  LET o == Observed(answers, tasks)
  IN  CASE t = "embedding" -> OpenAIEmbeddingResult(o.c1, o.c2, o.e).score
        [] t = "rag" -> OpenAIRagResult(o.c1, o.c2, o.r).score
        [] t = "llm" -> OpenAILlmResult(o.reply, o.l).score
        [] t = "local-embedding" -> LocalEmbeddingResult(doc1, doc2, o.e).score
        [] t = "local-rag" -> LocalRagResult(doc1, doc2, o.r).score
        [] OTHER -> LocalLlmResult(doc1, doc2, o.l).score
\* the three sub-strategies are started together; a score is sent only once
\* all three are fulfilled, and it is the weighted sum of their scores; a
\* failed sub-strategy fails the request with no score
CombinedJoin ==
  InCombined =>
    /\ (\E t \in CombinedStrategies : tasks[t].st # "unstarted")
         => \A t \in CombinedStrategies : tasks[t].st # "unstarted"
    /\ (pc = "responded" /\ res.status = 200)
         => /\ \A t \in CombinedStrategies : tasks[t].st = "fulfilled"
            /\ LET e == SubScore(IF branch = "semantic" THEN "embedding"
                                 ELSE "local-embedding")
                   r == SubScore(IF branch = "semantic" THEN "rag" ELSE "local-rag")
                   l == SubScore(IF branch = "semantic" THEN "llm" ELSE "local-llm")
               IN  res.body.similarity = JsonNumber(WeightedSum(e, r, l))
    /\ (\E t \in CombinedStrategies : tasks[t].st = "rejected")
         => /\ pc = "responded"
            /\ res.status = 500
            /\ "similarity" \notin DOMAIN res.body
    /\ (pc = "responded" /\ res.status = 500)
         => \E t \in CombinedStrategies : tasks[t].st = "rejected"

\* C13 as stated: the three sub-strategies of a Combined call run concurrently
\* and the call is over only after all three are over, with a score when all
\* three succeeded and a failure without score when one failed.
C13_CombinedCompletesAfterAllThree ==
  /\ CombinedJoin
  /\ (InCombined /\ pc = "responded") => \A t \in CombinedStrategies : Settled(t)

\* C13, amended: the three sub-strategies of a Combined call are started
\* together; the call returns a score only after all three succeeded, and the
\* score is the weighted sum of theirs; the call fails, with no score, as soon
\* as the first sub-strategy fails, whichever it is and whatever the others
\* have done by then.
C13_CombinedJoinsOnSuccessFailsFast == CombinedJoin

\* a Combined call that failed while another sub-strategy was still pending,
\* and one that returned its score
C13_Witness ==
  /\ branch = "semantic"
  /\ pc = "responded"
  /\ res.status = 500
  /\ tasks["rag"].st = "rejected"
  /\ tasks["llm"].st = "fulfilled"
  /\ tasks["embedding"].st = "pending"

RemoteStrategies == Strategies \ LocalStrategies
ProviderError(t) == <<"provider error", t, tasks[t].failedAt>>

\* C18: on a remote backend a failed provider call fails the comparison with
\* the error of a failed call: the response carries no score, nothing is put in
\* the place of the missing answer, the strategy issues no call after the
\* failed one, and no provider call is issued twice.
C18_RemoteFailurePropagates ==
  /\ \A t \in RemoteStrategies :
       tasks[t].failedAt > 0 =>
         /\ tasks[t].st = "rejected"
         /\ tasks[t].issued = tasks[t].failedAt
         /\ pc = "responded"
         /\ res.status = 500
         /\ "similarity" \notin DOMAIN res.body
         /\ \E u \in RemoteStrategies :
              tasks[u].failedAt > 0 /\ res.body.details = ProviderError(u)
  /\ (branch \in SemanticCases \ LocalCases /\ pc = "responded" /\ res.status = 200)
       => \A t \in Strategies : tasks[t].failedAt = 0
  /\ \A i, j \in DOMAIN wire : i # j => wire[i] # wire[j]

\* the second Bedrock call failed; the second of two failing strategies of a
\* Combined call
C18_Witness ==
  \/ /\ branch = "semantic-bedrock"
     /\ tasks["bedrock"].failedAt = 2
     /\ res.status = 500
  \/ /\ branch = "semantic"
     /\ tasks["embedding"].failedAt = 1
     /\ tasks["rag"].failedAt = 2
     /\ res.body.details = <<"provider error", "embedding", 1>>

(***************************************************************************)
(* LoadSpec: concurrent calls of LocalSemanticSimilarityService            *)
(* .getEmbeddings on the one service instance of the process.  A step runs *)
(* a call from one await to the next.                                      *)
(***************************************************************************)
MaxCallers == 3
MaxLoads == 3
Callers == 1..MaxCallers

LoadInit ==
  /\ doc1 = <<>>
  /\ doc2 = <<>>
  /\ LexIdle
  /\ ReqIdle
  /\ split = NotSplitting
  /\ tasks = [t \in Strategies |-> Unstarted]
  /\ answers = NoAnswers
  /\ wire = <<>>
  /\ embed = NotEmbedding
  /\ ui = Mounted
  /\ extractor = "null"
  /\ loads = 0
  /\ callers = [c \in Callers |-> "idle"]

LoadFrame ==
  /\ UNCHANGED <<doc1, doc2>>
  /\ UNCHANGED lexVars
  /\ UNCHANGED reqVars
  /\ UNCHANGED chunkVars
  /\ UNCHANGED taskVars
  /\ UNCHANGED embedVars
  /\ UNCHANGED uiVars

\* getEmbeddings is called (for the first or a later chunk): initialize()
\* tests this.extractor and either calls pipeline() and awaits it, or returns,
\* and the call goes on to await this.extractor(safeText)
CallGetEmbeddings(c) ==
  /\ callers[c] \in {"idle", "returned", "failed"}
  /\ IF extractor = "null"
     THEN /\ loads < MaxLoads
          /\ loads' = loads + 1
          /\ callers' = [callers EXCEPT ![c] = "loading"]
     ELSE /\ loads' = loads
          /\ callers' = [callers EXCEPT ![c] = "extracting"]
  /\ UNCHANGED extractor
  /\ LoadFrame

\* pipeline() resolves: the assignment to this.extractor, then the await of
\* the test call
LoadCompletes(c) ==
  /\ callers[c] = "loading"
  /\ extractor' = "model"
  /\ callers' = [callers EXCEPT ![c] = "testing"]
  /\ UNCHANGED loads
  /\ LoadFrame

\* pipeline() rejects: initialize and getEmbeddings reject, nothing is assigned
LoadFails(c) ==
  /\ callers[c] = "loading"
  /\ callers' = [callers EXCEPT ![c] = "failed"]
  /\ UNCHANGED <<extractor, loads>>
  /\ LoadFrame

\* the test call settles (a failure is logged); initialize returns and
\* getEmbeddings awaits this.extractor(safeText)
TestSettles(c) ==
  /\ callers[c] = "testing"
  /\ callers' = [callers EXCEPT ![c] = "extracting"]
  /\ UNCHANGED <<extractor, loads>>
  /\ LoadFrame

\* this.extractor(safeText) settles and getEmbeddings returns or throws
ExtractSettles(c) ==
  /\ callers[c] = "extracting"
  /\ callers' \in {[callers EXCEPT ![c] = "returned"], [callers EXCEPT ![c] = "failed"]}
  /\ UNCHANGED <<extractor, loads>>
  /\ LoadFrame

LoadNext ==
  \/ \E c \in Callers : CallGetEmbeddings(c)
  \/ \E c \in Callers : LoadCompletes(c)
  \/ \E c \in Callers : LoadFails(c)
  \/ \E c \in Callers : TestSettles(c)
  \/ \E c \in Callers : ExtractSettles(c)

LoadSpec == LoadInit /\ [][LoadNext]_vars

\* C14: whatever the interleaving of the concurrent uses of the Local
\* backend, pipeline() is called at most once.
C14_ModelLoadedAtMostOnce == loads <= 1

(***************************************************************************)
(* EmbedSpec: one call of LocalSemanticSimilarityService                   *)
(* .calculateSemanticSimilarity, .calculateRAGSimilarity or                *)
(* .calculateLLMSimilarity, or of SemanticSimilarityService                *)
(* .calculateSemanticSimilarity, on documents of n1 and n2 chunks, a step  *)
(* per awaited getEmbeddings or embedDocuments.  A vector is its length    *)
(* and its leading components; the components after them are 0.            *)
(***************************************************************************)
MaxStoreChunks == 4
MaxEmbedChunks == 2
topK == 3

NoVector == [len |-> 0, head |-> <<>>]
\* what the model may produce for a chunk; their norms are whole numbers
ModelVectors == {[len |-> EmbeddingDim, head |-> h] :
                   h \in {<<1, 0>>, <<4, 3>>, <<-1, 0>>}}
\* the ones it may produce for a chunk of the second document
QueryVectors == {[len |-> EmbeddingDim, head |-> h] : h \in {<<1, 0>>, <<3, 4>>}}
\* getEmbeddings resolves with a vector or rejects
EmbedOutcomes == {[ok |-> TRUE, vec |-> v] : v \in ModelVectors}
                   \cup {[ok |-> FALSE, vec |-> NoVector]}
QueryOutcomes == {[ok |-> TRUE, vec |-> v] : v \in QueryVectors}
                   \cup {[ok |-> FALSE, vec |-> NoVector]}

\* new Array(384).fill(0)
fallbackEmbedding == [len |-> EmbeddingDim, head |-> <<0, 0>>]

PushEmbeddingSkipFailed(embeddings, outcome) ==
  IF outcome.ok THEN Append(embeddings, outcome.vec) ELSE embeddings

\* the body of createEmbeddings' loop: the embedding, or the fallback in its
\* place when getEmbeddings threw
PushEmbedding(embeddings, outcome) ==
  Append(embeddings, IF outcome.ok THEN outcome.vec ELSE fallbackEmbedding)

Dot(v, u) ==
  SumTo([i \in 1..MaxOf(Len(v.head), Len(u.head)) |-> Coef(v.head, i) * Coef(u.head, i)],
        MaxOf(Len(v.head), Len(u.head)))

\* LocalSemanticSimilarityService.cosineSimilarity; padding the shorter vector
\* with zeros changes no sum.  A vector that averageEmbeddings divided by a
\* count is kept as its sums: the count divides dotProduct and the product of
\* the magnitudes alike.
LocalCosineSimilarity(vec1, vec2) ==
  LET dotProduct == Dot(vec1, vec2)
      magnitude1 == Dot(vec1, vec1)
      magnitude2 == Dot(vec2, vec2)
  IN  IF magnitude1 = 0 \/ magnitude2 = 0 THEN Zero
      ELSE Root(dotProduct, magnitude1, magnitude2)

AddScore(a, b) ==
  IF IsNaN(a) \/ IsNaN(b) THEN NaN ELSE Num(a.n * b.d + b.n * a.d, a.d * b.d)

\* totalSimilarity over the first k pairs, in the order of the two loops
RECURSIVE TotalSimilarity(_, _, _)
TotalSimilarity(embeddings1, embeddings2, k) ==
  IF k = 0 THEN Zero
  ELSE LET i == ((k - 1) \div Len(embeddings2)) + 1
           j == ((k - 1) % Len(embeddings2)) + 1
       IN  AddScore(TotalSimilarity(embeddings1, embeddings2, k - 1),
                    LocalCosineSimilarity(embeddings1[i], embeddings2[j]))

averageOverFirstList(embeddings1, embeddings2) ==
  LET pairCount == Len(embeddings1) * Len(embeddings2)
      totalSimilarity == TotalSimilarity(embeddings1, embeddings2, pairCount)
  IN  IF pairCount > 0
      THEN Num(totalSimilarity.n, totalSimilarity.d * Len(embeddings1))
      ELSE Zero

averageSimilarity(embeddings1, embeddings2) ==
  LET pairCount == Len(embeddings1) * Len(embeddings2)
      totalSimilarity == TotalSimilarity(embeddings1, embeddings2, pairCount)
  IN  IF pairCount > 0
      THEN IF IsNaN(totalSimilarity) THEN NaN
           ELSE Num(totalSimilarity.n, totalSimilarity.d * pairCount)
      ELSE Zero

\* a < b for two fractions
Less(a, b) == a.n * b.d < b.n * a.d
MinOf(a, b) == IF a <= b THEN a ELSE b

\* similaritySearch's map: every stored embedding with its score against the
\* query
Similarities(queryEmbedding, documentEmbeddings) ==
  [index \in 1..Len(documentEmbeddings) |->
     [index |-> index,
      score |-> LocalCosineSimilarity(queryEmbedding, documentEmbeddings[index])]]

SortByScoreAscending(similarities) ==
  LET Before(i, j) ==
        \/ Less(similarities[i].score, similarities[j].score)
        \/ similarities[i].score = similarities[j].score /\ i < j
      Place(i) == 1 + Cardinality({j \in DOMAIN similarities : Before(j, i)})
  IN  [p \in 1..Len(similarities) |->
         similarities[CHOOSE i \in DOMAIN similarities : Place(i) = p]]

\* sort((a, b) => b.score - a.score): the higher score first, and of two equal
\* scores the one that was first
SortByScore(similarities) ==
  LET Before(i, j) ==
        \/ Less(similarities[j].score, similarities[i].score)
        \/ similarities[i].score = similarities[j].score /\ i < j
      Place(i) == 1 + Cardinality({j \in DOMAIN similarities : Before(j, i)})
  IN  [p \in 1..Len(similarities) |->
         similarities[CHOOSE i \in DOMAIN similarities : Place(i) = p]]

similaritySearch(queryEmbedding, documentEmbeddings) ==
  LET sorted == SortByScore(Similarities(queryEmbedding, documentEmbeddings))
  IN  SubSeq(sorted, 1, MinOf(topK, Len(sorted)))

\* calculateRAGSimilarity's loop: the similarDocs of every chunk of doc2
RetrievalResults(embeddings1, embeddings2) ==
  [i \in 1..Len(embeddings2) |-> similaritySearch(embeddings2[i], embeddings1)]

\* results.flatMap(...).reduce((a, b) => a + b, 0) over the first i results
RECURSIVE SumOfScores(_, _)
SumOfScores(results, i) ==
  IF i = 0 THEN Zero
  ELSE LET similarDocs == results[i]
           RECURSIVE Upto(_)
           Upto(j) == IF j = 0 THEN SumOfScores(results, i - 1)
                      ELSE AddScore(Upto(j - 1), similarDocs[j].score)
       IN  Upto(Len(similarDocs))

ScoresLength(results) == SumTo([i \in 1..Len(results) |-> Len(results[i])], Len(results))

averageScore(results) ==
  IF ScoresLength(results) > 0
  THEN LET total == SumOfScores(results, Len(results))
       IN  Num(total.n, total.d * ScoresLength(results))
  ELSE Zero

\* averageEmbeddings: [] for no embedding, and otherwise the sums of the
\* components, to be divided by the number of embeddings
averageEmbeddings(embeddings) ==
  IF Len(embeddings) = 0 THEN [len |-> 0, head |-> <<>>, over |-> 1]
  ELSE [len |-> EmbeddingDim,
        head |-> [i \in 1..2 |->
                    SumTo([e \in 1..Len(embeddings) |-> Coef(embeddings[e].head, i)],
                          Len(embeddings))],
        over |-> Len(embeddings)]

LocalMethods == {"embedding", "rag", "llm"}

EmbedInit ==
  /\ doc1 = <<>>
  /\ doc2 = <<>>
  /\ LexIdle
  /\ ReqIdle
  /\ split = NotSplitting
  /\ tasks = [t \in Strategies |-> Unstarted]
  /\ answers = NoAnswers
  /\ wire = <<>>
  /\ extractor = "null"
  /\ loads = 0
  /\ callers = <<>>
  /\ embed = NotEmbedding
  /\ ui = Mounted

EmbedFrame ==
  /\ UNCHANGED <<doc1, doc2>>
  /\ UNCHANGED lexVars
  /\ UNCHANGED reqVars
  /\ UNCHANGED chunkVars
  /\ UNCHANGED taskVars
  /\ UNCHANGED loadVars
  /\ UNCHANGED uiVars

\* the state of a call that has split its documents into n1 and n2 chunks
Called(service, method, n1, n2) ==
  [pc |-> "creating", service |-> service, method |-> method, list |-> 1,
   n |-> <<n1, n2>>, k |-> 0, calls |-> 0,
   got |-> <<<<>>, <<>>>>, embeddings |-> <<<<>>, <<>>>>,
   score |-> Zero, totalComparisons |-> 0, retrievalResults |-> <<>>, reasoning |-> ""]

\* LocalSemanticSimilarityService.calculateSemanticSimilarity,
\* calculateRAGSimilarity or calculateLLMSimilarity is called: splitText gives
\* n1 and n2 chunks and createEmbeddings(chunks1) starts
CallCalculate ==
  /\ embed.pc = "idle"
  /\ \E method \in LocalMethods, n1 \in 0..MaxStoreChunks, n2 \in 0..MaxEmbedChunks :
       embed' = Called("local", method, n1, n2)
  /\ EmbedFrame

\* getEmbeddings of the next chunk settles
EmbeddingSettles ==
  /\ embed.pc = "creating"
  /\ embed.service = "local"
  /\ embed.k < embed.n[embed.list]
  /\ \E outcome \in IF embed.list = 1 THEN EmbedOutcomes ELSE QueryOutcomes :
       embed' = [embed EXCEPT !.k = @ + 1,
                              !.calls = @ + 1,
                              !.got[embed.list] = Append(@, outcome),
                              !.embeddings[embed.list] = PushEmbedding(@, outcome)]
  /\ EmbedFrame

\* what the called method returns from the two lists of embeddings
ResultOf(e) ==
  LET embeddings1 == e.embeddings[1]
      embeddings2 == e.embeddings[2]
      results == RetrievalResults(embeddings1, embeddings2)
      similarity == LocalCosineSimilarity(averageEmbeddings(embeddings1),
                                          averageEmbeddings(embeddings2))
  IN  CASE e.method = "embedding" ->
             [e EXCEPT !.pc = "returned",
                       !.score = averageSimilarity(embeddings1, embeddings2),
                       !.totalComparisons = Len(embeddings1) * Len(embeddings2)]
        [] e.method = "rag" ->
             [e EXCEPT !.pc = "returned",
                       !.score = averageScore(results),
                       !.retrievalResults = results]
        [] e.method = "llm" ->
             [e EXCEPT !.pc = "returned",
                       !.score = similarity,
                       !.reasoning = LocalNarrative(similarity)]

\* createEmbeddings returns: the second list, or the result
CreateReturns ==
  /\ embed.pc = "creating"
  /\ embed.service = "local"
  /\ embed.k = embed.n[embed.list]
  /\ embed' = IF embed.list = 1 THEN [embed EXCEPT !.list = 2, !.k = 0]
              ELSE ResultOf(embed)
  /\ EmbedFrame

\* SemanticSimilarityService.calculateSemanticSimilarity is called
CallCalculateOpenAI ==
  /\ embed.pc = "idle"
  /\ \E n1 \in 0..MaxStoreChunks, n2 \in 0..MaxEmbedChunks :
       embed' = Called("openai", "embedding", n1, n2)
  /\ EmbedFrame

\* the lists of n vectors that embedDocuments may resolve with
RECURSIVE VectorLists(_)
VectorLists(n) ==
  IF n = 0 THEN {<<>>}
  ELSE {Append(l, v) : l \in VectorLists(n - 1), v \in QueryVectors}

\* createEmbeddings: the one embedDocuments call for all the chunks of a
\* document resolves, and createEmbeddings returns its vectors: the second
\* list is next, or the result
EmbedDocumentsReturns ==
  /\ embed.pc = "creating"
  /\ embed.service = "openai"
  /\ \E vectors \in VectorLists(embed.n[embed.list]) :
       LET e == [embed EXCEPT !.calls = @ + 1, !.embeddings[embed.list] = vectors]
       IN  embed' = IF embed.list = 1 THEN [e EXCEPT !.list = 2] ELSE ResultOf(e)
  /\ EmbedFrame

\* embedDocuments rejects: createEmbeddings and the comparison rethrow
EmbedDocumentsFails ==
  /\ embed.pc = "creating"
  /\ embed.service = "openai"
  /\ embed' = [embed EXCEPT !.pc = "rejected", !.calls = @ + 1]
  /\ EmbedFrame

EmbedNext ==
  \/ CallCalculate
  \/ EmbeddingSettles
  \/ CreateReturns
  \/ CallCalculateOpenAI
  \/ EmbedDocumentsReturns
  \/ EmbedDocumentsFails

EmbedSpec == EmbedInit /\ [][EmbedNext]_vars

IsZeroVector(v) == v.len = EmbeddingDim /\ \A i \in DOMAIN v.head : v.head[i] = 0

\* C19: createEmbeddings returns one vector per chunk, in chunk order: the
\* 384 zeros for a chunk whose embedding failed, its embedding for every other
\* chunk; the comparison returns a finite score.
C19_FailedChunksBecomeZeroVectors ==
  (embed.pc = "returned" /\ embed.service = "local") =>
    /\ \A l \in {1, 2} :
         /\ Len(embed.embeddings[l]) = embed.n[l]
         /\ Len(embed.got[l]) = embed.n[l]
         /\ \A k \in 1..embed.n[l] :
              IF embed.got[l][k].ok
              THEN embed.embeddings[l][k] = embed.got[l][k].vec
              ELSE IsZeroVector(embed.embeddings[l][k])
    /\ embed.score.k \in {"num", "surd"}

\* the first of two chunks failed and the comparison returned 1/2
C19_Witness ==
  /\ embed.pc = "returned"
  /\ embed.service = "local"
  /\ embed.n = <<2, 1>>
  /\ ~embed.got[1][1].ok
  /\ embed.got[1][2].ok
  /\ embed.got[2][1].ok
  /\ embed.score = Half

(***************************************************************************)
(* More properties of the lexical functions (checked under LexSpec).       *)
(***************************************************************************)
RECURSIVE ReverseSeq(_)
ReverseSeq(s) == IF s = <<>> THEN <<>> ELSE Append(ReverseSeq(Tail(s)), Head(s))
\* doc1 with its words in the opposite order, written twice, in lower case,
\* without its full stops, with a full stop more
Rewritings(d) ==
  {JoinSpace(ReverseSeq(SplitSpaces(d))), d \o <<" ">> \o d, toLowerCase(d),
   SelectSeq(d, LAMBDA c : c # "."), d \o <<".">>}
TokenSet(d) == Range(tokenize(d))
SetRatio(A, B) ==
  IF A \cup B = {} THEN Zero ELSE Num(Cardinality(A \cap B), Cardinality(A \cup B))
ExampleMat == <<"t", "h", "e", " ", "c", "a", "t", " ", "s", "a", "t", " ", "o", "n", " ", "t", "h", "e", " ", "m", "a", "t">>
ExampleRug == <<"t", "h", "e", " ", "c", "a", "t", " ", "s", "a", "t", " ", "o", "n", " ", "t", "h", "e", " ", "r", "u", "g">>
ExampleScore == jaccardSimilarity(ExampleMat, ExampleRug)

\* C23: jaccardSimilarity(d1, d2) is |A \cap B| / |A \cup B| for the sets A, B
\* of distinct tokens of d1 and d2 (0 when both are empty), so it does not
\* change when d1's words are reordered or repeated, its letters change case or
\* its punctuation changes; the spec's example scores 4/6.
C23_JaccardIsSetRatio ==
  /\ fn = "jaccard" =>
       /\ fwd = SetRatio(TokenSet(doc1), TokenSet(doc2))
       /\ \A d \in Rewritings(doc1) :
            /\ TokenSet(d) = TokenSet(doc1)
            /\ jaccardSimilarity(d, doc2) = fwd
  /\ ExampleScore = Num(4, 6)

\* a score strictly between 0 and 1 from a document with upper case and
\* punctuation
C23_Witness ==
  /\ fn = "jaccard"
  /\ doc1 = <<"B", ".", " ", "a">>
  /\ doc2 = <<"a">>
  /\ fwd = Num(1, 2)

(***************************************************************************)
(* More properties of the dispatcher (checked under Spec).                 *)
(***************************************************************************)
CatalogName(id) == Catalog[CHOOSE i \in DOMAIN Catalog : Catalog[i].id = id].name
\* the case label of compare's or compareSemantic's switch that spells the id
OwnCase(id) ==
  IF IsSemantic(id) THEN SemanticCase(id) ELSE LexicalCase(id)
NamedAsListed(id) ==
  (pc = "responded" /\ res.status = 200 /\ algorithm = id)
    => /\ branch = OwnCase(id)
       /\ res.body.algorithm = CatalogName(id)

\* C27: for every id of the catalog of getAlgorithms, a successful comparison
\* requested with that id is handled by the case that spells the id and
\* reports as its algorithm exactly the name the catalog lists for the id.
C27_CatalogNameReported == \A id \in CatalogIds : NamedAsListed(id)

\* the algorithm name a successful comparison requested with the id reports
ReportedName(id) ==
  IF IsSemantic(id)
  THEN SemanticResult(SemanticCase(id), doc1, doc2,
                      CHOOSE o \in OutcomesOf(SemanticCase(id)) : TRUE).algorithm
  ELSE compare(doc1, doc2, id).algorithmName
RoutedAsLowerCase ==
  LET id == toLowerCase(algorithm)
  IN  /\ branch = OwnCase(id)
      /\ res.body.algorithm = ReportedName(id)

\* C28: a request whose identifier differs from an id of the catalog only in
\* letter case is routed to the same algorithm as the lower-case id and
\* returns the same algorithm name.
C28_RoutingIgnoresLetterCase ==
  (pc = "responded" /\ res.status = 200 /\ IsIdentifier(algorithm)
     /\ toLowerCase(algorithm) \in CatalogIds)
    => RoutedAsLowerCase

(***************************************************************************)
(* HandlerSpec: the two compare routes, POST /compare (compareDocuments,   *)
(* the actions of Spec) and POST /compare-files (compareFiles).            *)
(***************************************************************************)
\* req.files.file1 or req.files.file2 absent
NoFile == <<"no file">>
\* file.buffer.toString('utf-8'): any text, the empty one included
FileDocs == {NoFile, <<>>, <<"a">>, <<"a", " ", "B", ".">>}

\* req.body.algorithm || 'jaccard'
AlgorithmOrJaccard(a) == IF a \in {Undefined, Id_empty} THEN Id_jaccard ELSE a

\* POST /compare-files arrives
ReceiveFiles ==
  /\ pc = "idle"
  /\ doc1' \in FileDocs
  /\ doc2' \in FileDocs
  /\ algorithm' \in AlgorithmInputs
  /\ pc' = "received-files"
  /\ handledBy' = <<"compareFiles">>
  /\ UNCHANGED <<branch, providerCalls, res>>
  /\ UNCHANGED lexVars
  /\ UNCHANGED svcVars

\* compareFiles: a file is missing
FilesRejectMissing ==
  /\ pc = "received-files"
  /\ doc1 = NoFile \/ doc2 = NoFile
  /\ res' = [status |-> 400, body |-> [error |-> "Both files required"]]
  /\ pc' = "responded"
  /\ UNCHANGED <<doc1, doc2, algorithm, handledBy, branch, providerCalls>>
  /\ UNCHANGED lexVars
  /\ UNCHANGED svcVars

\* compareFiles: algorithm.startsWith is not a function
FilesRoutingThrows ==
  /\ pc = "received-files"
  /\ doc1 # NoFile /\ doc2 # NoFile
  /\ algorithm = NonString
  /\ res' = [status |-> 500,
             body |-> [error |-> "Internal server error",
                       details |-> "algorithm.startsWith is not a function"]]
  /\ pc' = "responded"
  /\ UNCHANGED <<doc1, doc2, algorithm, handledBy, branch, providerCalls>>
  /\ UNCHANGED lexVars
  /\ UNCHANGED svcVars

\* compareFiles: the lexical path
FilesLexicalCompare ==
  /\ pc = "received-files"
  /\ doc1 # NoFile /\ doc2 # NoFile
  /\ algorithm # NonString
  /\ ~IsSemantic(AlgorithmOrJaccard(algorithm))
  /\ LET alg == AlgorithmOrJaccard(algorithm)
         result == compare(doc1, doc2, alg)
     IN  /\ branch' = LexicalCase(toLowerCase(alg))
         /\ handledBy' = <<"compareFiles", "compare",
                           LexicalFunction(LexicalCase(toLowerCase(alg)))>>
         /\ res' = [status |-> 200,
                    body |-> JsonBody([similarity |-> result.score,
                                       algorithm |-> result.algorithmName,
                                       details |-> result.details])]
  /\ pc' = "responded"
  /\ UNCHANGED <<doc1, doc2, algorithm, providerCalls>>
  /\ UNCHANGED lexVars
  /\ UNCHANGED svcVars

\* compareFiles: the semantic path, up to the await of the service
FilesSemanticDispatch ==
  /\ pc = "received-files"
  /\ doc1 # NoFile /\ doc2 # NoFile
  /\ algorithm # NonString
  /\ IsSemantic(AlgorithmOrJaccard(algorithm))
  /\ LET case == SemanticCase(toLowerCase(AlgorithmOrJaccard(algorithm)))
     IN  /\ branch' = case
         /\ handledBy' = <<"compareFiles", "compareSemantic", ServiceMethod(case)>>
  /\ pc' = "awaiting"
  /\ UNCHANGED <<doc1, doc2, algorithm, providerCalls, res>>
  /\ UNCHANGED lexVars
  /\ UNCHANGED svcVars

HandlerNext ==
  \/ Next
  \/ ReceiveFiles
  \/ FilesRejectMissing
  \/ FilesRoutingThrows
  \/ FilesLexicalCompare
  \/ FilesSemanticDispatch

HandlerSpec == Init /\ [][HandlerNext]_vars

FromFiles == handledBy # <<>> /\ handledBy[1] = "compareFiles"
InputMissing ==
  IF FromFiles THEN doc1 = NoFile \/ doc2 = NoFile ELSE doc1 = <<>> \/ doc2 = <<>>
AlgorithmRan == branch # "none"
\* the response of a request that is over
ResponseByPath ==
  pc = "responded" =>
    /\ res.status \in {200, 400, 500}
    /\ res.status = 400 <=> InputMissing
    /\ res.status = 400 => ~AlgorithmRan /\ providerCalls = 0
    /\ (~InputMissing /\ algorithm = NonString) => res.status = 500
    /\ res.status = 500
         => /\ DOMAIN res.body = {"error", "details"}
            /\ res.body.details \in STRING
    /\ res.status = 200
         => /\ AlgorithmRan
            /\ {"algorithm", "details"} \subseteq DOMAIN res.body
\* between two requests the state is the one the process started with
NothingKept == pc = "idle" => Init
\* in every position before the response the conditions of the handler's next
\* step are met: one of the four ways on from the request, and a settled
\* service call after the dispatch
NeverStuck ==
  /\ pc \in {"received", "received-files"} =>
       LET alg == IF FromFiles THEN AlgorithmOrJaccard(algorithm)
                  ELSE DefaultedAlgorithm(algorithm)
       IN  \/ InputMissing
           \/ algorithm = NonString
           \/ algorithm # NonString /\ IsSemantic(alg)
           \/ algorithm # NonString /\ ~IsSemantic(alg)
  /\ pc = "awaiting" => OutcomesOf(branch) # {}

\* C22: every request to compareDocuments or compareFiles is answered exactly
\* once: 400 when a document or file is missing, before any algorithm runs;
\* 500 with the error's message when routing or the algorithm throws, a
\* non-string algorithm included; the result otherwise.  After a request,
\* failed or not, the process is in the state it started in.
C22_OneResponseOnEveryPath ==
  /\ [](ResponseByPath /\ NothingKept /\ NeverStuck)
  /\ [][/\ res' # res
           => \/ res = NoResponse /\ pc # "responded" /\ pc' = "responded"
              \/ pc = "responded" /\ pc' = "idle" /\ res' = NoResponse
        /\ pc' = "responded" => pc # "responded" /\ res' # NoResponse
        /\ pc = "responded" => pc' = "idle"]_vars

\* a request with two files, one of them empty, and a non-string algorithm,
\* answered 500
C22_Witness ==
  /\ pc = "responded"
  /\ FromFiles
  /\ doc1 = <<>>
  /\ algorithm = NonString
  /\ res.status = 500

(***************************************************************************)
(* More properties of the Local strategies (checked under EmbedSpec).      *)
(***************************************************************************)
BothHaveChunks == embed.n[1] > 0 /\ embed.n[2] > 0

\* C21: for two non-empty documents the strategy returns a finite score
\* between 0 and 1, whatever vectors the embedding model returned.
C21_ScoreInUnitInterval ==
  (embed.pc = "returned" /\ BothHaveChunks)
    => /\ embed.score.k \in {"num", "surd"}
       /\ ~Below(embed.score, 0, 1)
       /\ ~Exceeds(embed.score, 1, 1)

DirectReturned == embed.pc = "returned" /\ embed.method = "embedding"

\* the cosine of two model vectors in twenty-fifths: their norms are 1 or 5
InTwentyFifths(vec1, vec2) ==
  (LocalCosineSimilarity(vec1, vec2).n * 25) \div LocalCosineSimilarity(vec1, vec2).d

\* the mean over the cross product of the two lists
PairwiseMean(embeddings1, embeddings2) ==
  Num(SumTo([i \in 1..Len(embeddings1) |->
               SumTo([j \in 1..Len(embeddings2) |->
                        InTwentyFifths(embeddings1[i], embeddings2[j])],
                     Len(embeddings2))],
            Len(embeddings1)),
      25 * Len(embeddings1) * Len(embeddings2))

\* C25: the direct embedding comparison embeds each chunk once: the Local
\* service with one getEmbeddings call per chunk, the OpenAI service with one
\* embedDocuments call per document, two in all; totalComparisons is
\* chunks1 * chunks2 and the score is the mean of the pairwise cosines, or 0
\* when a document has no chunk.
C25_EachChunkEmbeddedOnce ==
  DirectReturned =>
    /\ embed.calls = IF embed.service = "local" THEN embed.n[1] + embed.n[2] ELSE 2
    /\ \A l \in {1, 2} : Len(embed.embeddings[l]) = embed.n[l]
    /\ embed.service = "local" => \A l \in {1, 2} : Len(embed.got[l]) = embed.n[l]
    /\ embed.totalComparisons = embed.n[1] * embed.n[2]
    /\ embed.score = IF embed.n[1] = 0 \/ embed.n[2] = 0 THEN Zero
                     ELSE PairwiseMean(embed.embeddings[1], embed.embeddings[2])

\* the OpenAI service compared two chunks with two: four comparisons after
\* two calls, mean 4/5
C25_Witness ==
  /\ DirectReturned
  /\ embed.service = "openai"
  /\ embed.n = <<2, 2>>
  /\ embed.calls = 2
  /\ embed.totalComparisons = 4
  /\ embed.score = Num(4, 5)

\* C25 as stated: chunks1 + chunks2 provider calls in total
C25_OneProviderCallPerChunk ==
  DirectReturned => embed.calls = embed.n[1] + embed.n[2]

RagReturned == embed.pc = "returned" /\ embed.method = "rag"

\* the score of chunk index of doc1 against chunk i of doc2
ChunkScore(i, index) ==
  LocalCosineSimilarity(embed.embeddings[2][i], embed.embeddings[1][index])

Retrieved(i) == {embed.retrievalResults[i][p].index : p \in DOMAIN embed.retrievalResults[i]}

\* the retrieved scores of all doc2 chunks, summed in twenty-fifths
RetrievedTotal ==
  SumTo([i \in 1..embed.n[2] |->
           SumTo([p \in 1..Len(embed.retrievalResults[i]) |->
                    (embed.retrievalResults[i][p].score.n * 25)
                      \div embed.retrievalResults[i][p].score.d],
                 Len(embed.retrievalResults[i]))],
        embed.n[2])

\* C24: the Local RAG comparison retrieves, for every doc2 chunk, exactly
\* min(3, chunks1) different doc1 chunks with their cosine scores, in
\* non-increasing score order, and no chunk left out scores higher than a
\* retrieved one; the score is the mean of all the retrieved scores, or 0
\* when nothing is retrieved.
C24_RagRetrievesTopThree ==
  RagReturned =>
    /\ Len(embed.retrievalResults) = embed.n[2]
    /\ \A i \in 1..embed.n[2] :
         LET similarDocs == embed.retrievalResults[i]
         IN  /\ Len(similarDocs) = MinOf(3, embed.n[1])
             /\ Cardinality(Retrieved(i)) = Len(similarDocs)
             /\ Retrieved(i) \subseteq 1..embed.n[1]
             /\ \A p \in DOMAIN similarDocs :
                  similarDocs[p].score = ChunkScore(i, similarDocs[p].index)
             /\ \A p, q \in DOMAIN similarDocs :
                  p < q => ~Less(similarDocs[p].score, similarDocs[q].score)
             /\ \A out \in (1..embed.n[1]) \ Retrieved(i) :
                  \A p \in DOMAIN similarDocs :
                    ~Less(similarDocs[p].score, ChunkScore(i, out))
    /\ embed.score = IF embed.n[1] = 0 \/ embed.n[2] = 0 THEN Zero
                     ELSE Num(RetrievedTotal, 25 * embed.n[2] * MinOf(3, embed.n[1]))

\* of four doc1 chunks the second, scoring -1, is left out for the first doc2
\* chunk, and the chunk whose embedding failed is retrieved last with score 0
C24_Witness ==
  /\ RagReturned
  /\ embed.n = <<4, 2>>
  /\ [p \in 1..3 |-> embed.retrievalResults[1][p].index] = <<1, 3, 4>>
  /\ embed.retrievalResults[1][2].score = Num(4, 5)
  /\ embed.retrievalResults[1][3].score = Zero
  /\ ChunkScore(1, 2) = Num(-1, 1)
  /\ ~embed.got[1][4].ok

LlmReturned == embed.pc = "returned" /\ embed.method = "llm"

\* component i of the sum of a list of embeddings: the mean times the count
SumOfChunks(l, i) ==
  SumTo([e \in 1..embed.n[l] |-> embed.embeddings[l][e].head[i]], embed.n[l])
\* dot product of the two means, times the two counts
MeanDot(l, m) == SumOfChunks(l, 1) * SumOfChunks(m, 1) + SumOfChunks(l, 2) * SumOfChunks(m, 2)

\* x is the cosine of the two mean embeddings: it has the sign of their dot
\* product and its square is dot^2 / (|m1|^2 |m2|^2)
IsCosineOfMeans(x) ==
  /\ (x.n > 0) = (MeanDot(1, 2) > 0)
  /\ (x.n < 0) = (MeanDot(1, 2) < 0)
  /\ x.n * x.n * MeanDot(1, 1) * MeanDot(2, 2)
       = MeanDot(1, 2) * MeanDot(1, 2) * (IF x.k = "surd" THEN x.d ELSE x.d * x.d)

\* C26: the narrative strategy returns the cosine of the two mean chunk
\* embeddings (0 when a mean is the zero vector or a document has no chunk)
\* and its reasoning is the one narrative of the range the score is in: above
\* 0.8, above 0.6 up to 0.8, above 0.4 up to 0.6, or up to 0.4.
C26_NarrativeFromScoreAlone ==
  LlmReturned =>
    /\ IF embed.n[1] = 0 \/ embed.n[2] = 0 \/ MeanDot(1, 1) = 0 \/ MeanDot(2, 2) = 0
       THEN embed.score = Zero
       ELSE IsCosineOfMeans(embed.score)
    /\ Exceeds(embed.score, 4, 5)
         => embed.reasoning = "Documents are highly similar in content and meaning"
    /\ (Exceeds(embed.score, 3, 5) /\ ~Exceeds(embed.score, 4, 5))
         => embed.reasoning = "Documents have moderate similarity with some shared concepts"
    /\ (Exceeds(embed.score, 2, 5) /\ ~Exceeds(embed.score, 3, 5))
         => embed.reasoning = "Documents have low similarity with minimal shared content"
    /\ ~Exceeds(embed.score, 2, 5)
         => embed.reasoning = "Documents are largely dissimilar with minimal overlap"

\* two chunks against one, the means' cosine is exactly 0.8: moderate
C26_Witness ==
  /\ LlmReturned
  /\ embed.n = <<2, 1>>
  /\ embed.score = Num(4, 5)
  /\ embed.reasoning = "Documents have moderate similarity with some shared concepts"

(***************************************************************************)
(* UISpec: the frontend.  App holds similarity, error and loading and      *)
(* passes their setters to FileUpload, which holds the two chosen files.   *)
(* A handler runs to its first await in the click; the fetch and the       *)
(* res.json() it awaits settle in later steps.                             *)
(***************************************************************************)
MAX_FILE_SIZE == 2097152

FileNames == {<<"a", ".", "t", "x", "t">>, <<"a", ".", "p", "d", "f">>}
\* what a file input may hold
Files == {[kind |-> "file", name |-> n, size |-> z] :
            n \in FileNames, z \in {MAX_FILE_SIZE, MAX_FILE_SIZE + 1}}

\* the response classes res.ok and res.status tell apart
Statuses == {"ok", "4xx", "5xx"}
\* what res.json() may resolve with: a result, a body with an error text
\* (mentioning 'no text' or not), an object without error, null
Bodies == {[kind |-> "result"],
           [kind |-> "error", error |-> "No text found in document"],
           [kind |-> "error", error |-> "Both documents are required"],
           [kind |-> "object"],
           Null}

\* file.name.endsWith('.txt')
EndsWithTxt(name) ==
  /\ Len(name) >= 4
  /\ SubSeq(name, Len(name) - 3, Len(name)) = <<".", "t", "x", "t">>

\* validateFile: "" when the file is valid, and otherwise the message it
\* passes to onError
validateFile(file) ==
  IF ~EndsWithTxt(file.name) THEN "Only .txt files are supported."
  ELSE IF file.size > MAX_FILE_SIZE THEN "File size must be less than 2MB."
  ELSE ""

\* data.error || fallback
ErrorOr(data, fallback) == IF data.kind = "error" THEN data.error ELSE fallback

\* data.error.toLowerCase().includes('no text')
SaysNoText(data) == data.kind = "error" /\ data.error = "No text found in document"

UIInit ==
  /\ doc1 = <<>>
  /\ doc2 = <<>>
  /\ LexIdle
  /\ ReqIdle
  /\ SvcIdle

UIFrame ==
  /\ UNCHANGED <<doc1, doc2>>
  /\ UNCHANGED lexVars
  /\ UNCHANGED reqVars
  /\ UNCHANGED chunkVars
  /\ UNCHANGED taskVars
  /\ UNCHANGED loadVars
  /\ UNCHANGED embedVars

\* handleFileChange: a file input changes
HandleFileChange ==
  /\ \E file \in Files \cup {Null} :
       \/ ui' = [ui EXCEPT !.file1 = file]
       \/ ui' = [ui EXCEPT !.file2 = file]
  /\ UIFrame

\* a click on Compare Documents, which is disabled while loading:
\* handleCompare up to its fetch
HandleCompare ==
  /\ ~ui.loading
  /\ ui' = [ui EXCEPT !.error = "", !.similarity = Null, !.loading = TRUE,
                      !.pc = "fetch", !.handler = "compare"]
  /\ UIFrame

\* a click on Compare Files, which is disabled while loading or without two
\* files: handleUpload up to its return or its fetch
HandleUpload ==
  /\ ~ui.loading
  /\ ui.file1 # Null
  /\ ui.file2 # Null
  /\ ui' = IF ui.file1 = Null \/ ui.file2 = Null
           THEN [ui EXCEPT !.error = "Please select both files."]
           ELSE IF validateFile(ui.file1) # ""
           THEN [ui EXCEPT !.error = validateFile(ui.file1)]
           ELSE IF validateFile(ui.file2) # ""
           THEN [ui EXCEPT !.error = validateFile(ui.file2)]
           ELSE [ui EXCEPT !.loading = TRUE, !.error = "", !.similarity = Null,
                           !.pc = "fetch", !.handler = "upload"]
  /\ UIFrame

\* catch and finally
Caught(u) ==
  [u EXCEPT !.error = "Could not connect to backend", !.loading = FALSE,
            !.pc = "idle", !.handler = "none", !.status = "none"]

\* the fetch resolves with a response and res.json() starts
FetchResolves ==
  /\ ui.pc = "fetch"
  /\ \E status \in Statuses : ui' = [ui EXCEPT !.pc = "json", !.status = status]
  /\ UIFrame

FetchRejectsWithoutFinally ==
  /\ ui.pc = "fetch"
  /\ ui' = [ui EXCEPT !.error = "Could not connect to backend",
                      !.pc = "idle", !.handler = "none", !.status = "none"]
  /\ UIFrame

\* the fetch rejects
FetchRejects ==
  /\ ui.pc = "fetch"
  /\ ui' = Caught(ui)
  /\ UIFrame

\* the try block after res.json() resolved with data, then finally; reading
\* data.error of null throws into catch
AfterJson(u, data) ==
  LET done == [u EXCEPT !.loading = FALSE, !.pc = "idle", !.handler = "none",
                        !.status = "none"]
  IN  IF u.handler = "compare"
      THEN IF u.status = "ok" THEN [done EXCEPT !.similarity = data]
           ELSE IF data = Null THEN Caught(u)
           ELSE [done EXCEPT !.error = ErrorOr(data, "Error comparing documents")]
      ELSE IF data = Null THEN Caught(u)
           ELSE IF u.status = "ok"
           THEN IF SaysNoText(data)
                THEN [done EXCEPT !.error = "No text found in one or both documents. Please upload valid .txt files with text content."]
                ELSE [done EXCEPT !.similarity = data]
           ELSE IF u.status = "4xx"
           THEN [done EXCEPT !.error = ErrorOr(data, "Invalid file(s) or no text found in document.")]
           ELSE [done EXCEPT !.error = ErrorOr(data, "Error comparing files")]

\* res.json() resolves
JsonResolves ==
  /\ ui.pc = "json"
  /\ \E data \in Bodies : ui' = AfterJson(ui, data)
  /\ UIFrame

\* res.json() rejects: the body is not JSON
JsonRejects ==
  /\ ui.pc = "json"
  /\ ui' = Caught(ui)
  /\ UIFrame

UINext ==
  \/ HandleFileChange
  \/ HandleCompare
  \/ HandleUpload
  \/ FetchResolves
  \/ FetchRejects
  \/ JsonResolves
  \/ JsonRejects

UISpec == UIInit /\ [][UINext]_vars

\* C29: the UI state never holds a non-null similarity result together with
\* a non-empty error message.
C29_NeverResultAndError == ~(ui.similarity # Null /\ ui.error # "")

\* a fetch or a res.json() that was started settles
FairUISpec ==
  /\ UISpec
  /\ WF_vars(FetchResolves \/ FetchRejects)
  /\ WF_vars(JsonResolves \/ JsonRejects)

\* C30: loading becomes true only in handleCompare or handleUpload, and
\* whenever it is true it is eventually false again.
C30_LoadingEventuallyCleared ==
  /\ [][(~ui.loading /\ ui'.loading) => ui.pc = "idle" /\ ui'.pc = "fetch"]_vars
  /\ ui.loading ~> ~ui.loading

\* an upload whose fetch or body failed has cleared loading
C30_Witness ==
  /\ ~ui.loading
  /\ ui.pc = "idle"
  /\ ui.file1 # Null
  /\ ui.file2 # Null
  /\ ui.error = "Could not connect to backend"

====
